---- MODULE Spec2Model ----
(***************************************************************************)
(* KPI triage and domain fan-out orchestration of the dairy-farm analysis  *)
(* agents: run_pre_analysis (agents/pre_analyzer_agent.py) and the two     *)
(* orchestration entry points run_master_summary                           *)
(* (agents/master_summary_agent.py) and the graph pipeline                 *)
(* (agents/agents_graph.py).                                               *)
(*                                                                         *)
(* A Python str that the code inspects character by character is a         *)
(* sequence of one-character strings; Join turns it into a TLA+ string so  *)
(* that it can be looked up in the registry, whose aliases and codes are    *)
(* plain strings.  A Python dict is a function; None is a record with      *)
(* is_none = TRUE.                                                         *)
(***************************************************************************)
EXTENDS FiniteSets, Integers, Sequences, TLC

VARIABLES
    \* ---- run_pre_analysis ----
    triage_kpis,        \* argument: [is_none, items], items a sequence of tokens
    progress_callback,  \* argument: one of Callbacks
    pc,                 \* position inside run_pre_analysis
    kpi_codes,          \* resolved code list
    alias_whitelist,    \* [is_none, aliases]
    idx,                \* number of completed batch iterations
    calls,              \* parameters of the summarization calls issued so far
    failed_calls,       \* number of summarization calls that failed
    combined,           \* accumulator dict of the batch loop
    template,           \* [is_none, fields]
    data,               \* [is_none, has_summaries, summaries, meta]: the fetched payload
    summaries_dict,     \* [built, entries]: the filtered mapping handed to the prompt
    events,             \* progress values delivered to the callback, oldest first
    llm_calls,          \* number of classification calls issued
    result,             \* [returned, value]
    in_flight,          \* summarization calls issued and not yet answered
    responses,          \* payloads of the answered summarization calls, oldest first
    \* ---- orchestration ----
    entry,              \* "master" (run_master_summary) or "graph" (build_agents_graph)
    phase,              \* position of the pipeline run
    pre_summary,        \* [stored, domains_to_investigate]
    scheduled,          \* the tasks have been built and handed to gather
    tasks,              \* scheduled domain tasks in gather order: [domain, kpis]
    task_state,         \* per scheduled domain: [state, result]
    domains,            \* [built, map]: the domain -> result mapping after the join
    synth_calls,        \* number of final-synthesis calls issued
    render,             \* what became of the PDF rendering step
    report,             \* [returned, combined]: what the caller receives
    \* ---- direct calls of the agents and of the helper functions ----
    args,               \* [fn, ...]: the function called and its arguments
    ret,                \* [returned, value]: what the call returned
    \* ---- data/add_variables_context.py ----
    ctx_entry,          \* "process_all", "gen_batch" (called directly) or "none"
    descriptions,       \* argument of process_all (of gen_batch: its batch)
    chunk_size,         \* argument --chunk-size
    concurrency,        \* argument --concurrency
    max_retries,        \* argument of gen_batch
    pa_pc,              \* position inside process_all
    batches,            \* chunked(descriptions, chunk_size)
    batch_results,      \* the list `results` of process_all: one slot per batch
    semaphore,          \* value of the asyncio.Semaphore
    worker,             \* per batch: [st, attempt, last_err, runs]
    returned_by,        \* per batch: what its gen_batch call returned
    completed,          \* batch indices in the order their workers finished
    flat                \* [returned, items]: what process_all returns

triage_vars == << triage_kpis, progress_callback, pc, kpi_codes, alias_whitelist, idx,
                  calls, failed_calls, combined, template, data, summaries_dict, events, llm_calls,
                  result, in_flight, responses >>
pipeline_vars == << entry, phase, pre_summary, scheduled, tasks, task_state, domains,
                    synth_calls, render, report >>
call_vars == << args, ret >>
context_vars == << ctx_entry, descriptions, chunk_size, concurrency, max_retries, pa_pc,
                   batches, batch_results, semaphore, worker, returned_by, completed, flat >>
vars == << triage_vars, pipeline_vars, call_vars, context_vars >>

-----------------------------------------------------------------------------
(* Bounds of the model *)

\* longest requested selection (triage_kpis) that is enumerated, alone and
\* followed by a copy of itself
MaxReq == 3

\* most keys of a domains_to_investigate that is enumerated with every choice of
\* keys and lists
MaxKeys == 2

-----------------------------------------------------------------------------
(* Python values *)

None == [is_none |-> TRUE]
EmptyDict == << >>

\* dict.update(b) on a: b's entries win
DictUpdate(a, b) ==
    [k \in (DOMAIN a) \cup (DOMAIN b) |-> IF k \in DOMAIN b THEN b[k] ELSE a[k]]

SeqsUpTo(S, n) == UNION { [1..k -> S] : k \in 0..n }

RECURSIVE Join(_)
Join(s) == IF s = << >> THEN "" ELSE Head(s) \o Join(Tail(s))

\* math.ceil(n / k) for n >= 0, k > 0
Ceil(n, k) == (n + k - 1) \div k

-----------------------------------------------------------------------------
(* str methods used by _slugify and _resolve_kpi_selection *)

Whitespace == { " ", "\t", "\n" }

RECURSIVE lstrip(_, _)
lstrip(s, cs) == IF s # << >> /\ Head(s) \in cs THEN lstrip(Tail(s), cs) ELSE s

RECURSIVE rstrip(_, _)
rstrip(s, cs) ==
    IF s # << >> /\ s[Len(s)] \in cs THEN rstrip(SubSeq(s, 1, Len(s) - 1), cs) ELSE s

\* str.strip(cs)
strip(s, cs) == rstrip(lstrip(s, cs), cs)

\* str.replace(old, new) for a one-character old
RECURSIVE replace(_, _, _)
replace(s, old, new) ==
    IF s = << >> THEN << >>
    ELSE (IF Head(s) = old THEN new ELSE << Head(s) >>) \o replace(Tail(s), old, new)

\* "__" in s
has_double_underscore(s) == \E i \in 1..(Len(s) - 1) : s[i] = "_" /\ s[i + 1] = "_"

\* one pass of str.replace("__", "_"): leftmost non-overlapping occurrences
RECURSIVE replace_double_underscore(_)
replace_double_underscore(s) ==
    IF Len(s) < 2 THEN s
    ELSE IF s[1] = "_" /\ s[2] = "_"
         THEN << "_" >> \o replace_double_underscore(SubSeq(s, 3, Len(s)))
         ELSE << s[1] >> \o replace_double_underscore(Tail(s))

UpperChars == << "A", "B", "C", "D", "E", "F", "G", "H", "I", "J", "K", "L", "M",
                 "N", "O", "P", "Q", "R", "S", "T", "U", "V", "W", "X", "Y", "Z", "É", "Ñ" >>
LowerChars == << "a", "b", "c", "d", "e", "f", "g", "h", "i", "j", "k", "l", "m",
                 "n", "o", "p", "q", "r", "s", "t", "u", "v", "w", "x", "y", "z", "é", "ñ" >>

lower_char(c) ==
    IF \E i \in 1..Len(UpperChars) : UpperChars[i] = c
    THEN LowerChars[CHOOSE i \in 1..Len(UpperChars) : UpperChars[i] = c]
    ELSE c

\* str.lower()
lower(s) == [i \in 1..Len(s) |-> lower_char(s[i])]

\* unicodedata.normalize("NFKD", ...) on the accented letters of the KPI names:
\* base letter followed by its combining mark
Decompositions ==
    { << "á", << "a", "COMBINING ACUTE ACCENT" >> >>,
      << "é", << "e", "COMBINING ACUTE ACCENT" >> >>,
      << "í", << "i", "COMBINING ACUTE ACCENT" >> >>,
      << "ó", << "o", "COMBINING ACUTE ACCENT" >> >>,
      << "ú", << "u", "COMBINING ACUTE ACCENT" >> >>,
      << "ñ", << "n", "COMBINING TILDE" >> >>,
      << "É", << "E", "COMBINING ACUTE ACCENT" >> >>,
      << "Ñ", << "N", "COMBINING TILDE" >> >> }

RECURSIVE nfkd(_)
nfkd(s) ==
    IF s = << >> THEN << >>
    ELSE (IF \E d \in Decompositions : d[1] = Head(s)
          THEN (CHOOSE d \in Decompositions : d[1] = Head(s))[2]
          ELSE << Head(s) >>) \o nfkd(Tail(s))

\* unicodedata.combining(ch) # 0
combining(ch) == ch \in { "COMBINING ACUTE ACCENT", "COMBINING TILDE" }

\* the chain of replacements shared by every slugify of the repository
slug_replacements(s) ==
    replace(replace(replace(replace(replace(replace(replace(replace(replace(replace(replace(
        s, "%", << "p", "c", "t" >>), "<", << "l", "t" >>), ">", << "g", "t" >>),
        "+", << "p", "l", "u", "s" >>), "(", << >>), ")", << >>), ".", << >>), ",", << >>),
        "/", << "_" >>), " ", << "_" >>), "-", << "_" >>)

\* while "__" in alias: alias = alias.replace("__", "_")
RECURSIVE collapse_underscores(_)
collapse_underscores(s) ==
    IF has_double_underscore(s) THEN collapse_underscores(replace_double_underscore(s)) ELSE s

\* pre_analyzer_agent._slugify
_slugify(value) ==
    LET normalized == SelectSeq(nfkd(value), LAMBDA ch : ~combining(ch))
        alias == collapse_underscores(slug_replacements(lower(normalized)))
    IN  strip(alias, { "_" })

-----------------------------------------------------------------------------
(* The triage registry *)

CORE_TRIAGE_KPIS ==
    << [alias |-> "pct_partos_logrados", code |-> "255d"],
       [alias |-> "pct_fiebre_de_leche", code |-> "224d"],
       [alias |-> "pct_retencion_de_placenta", code |-> "226d"],
       [alias |-> "pct_metritis_primaria", code |-> "227d"],
       [alias |-> "pct_cetosis", code |-> "228d"],
       [alias |-> "pct_vacas_muertas_frescas_lt_30_del", code |-> "309d"],
       [alias |-> "pct_desecho_vacas_lt_60_del_periodo", code |-> "311a"],
       [alias |-> "pct_desecho_plus", code |-> "251f"],
       [alias |-> "pico_de_prod_1a_lact", code |-> "79"],
       [alias |-> "pico_de_prod_2a_lact", code |-> "79a"],
       [alias |-> "pico_de_prod_3plus_lact", code |-> "79b"],
       [alias |-> "ganancia_peso_diaria_nac_vs_destete", code |-> "43"],
       [alias |-> "eficiencia_de_ganancia_de_peso", code |-> "44"],
       [alias |-> "pct_becerras_jaulas_muertas_lt_1_meses", code |-> "298a"],
       [alias |-> "pct_becerras_jaulas_muertas_lt_2_meses", code |-> "299a"],
       [alias |-> "pct_becerras_muertas_2_13_meses", code |-> "301a"],
       [alias |-> "pct_fertilidad_en_vaquillas", code |-> "45b"],
       [alias |-> "edad_1er_servicio_lt_13", code |-> "53"],
       [alias |-> "edad_1er_servicio_13_lt_14", code |-> "54"],
       [alias |-> "edad_1er_servicio_gt_15", code |-> "56"],
       [alias |-> "prod_a_305_del_1a_lact", code |-> "78"],
       [alias |-> "prod_a_305_del_2a_lact", code |-> "78a"],
       [alias |-> "prod_a_305_del_3plus_lact", code |-> "78b"],
       [alias |-> "pct_total_abortos_vaquillas_m", code |-> "328h"],
       [alias |-> "daily_rest_time_min_1a_lact", code |-> "259"],
       [alias |-> "daily_rest_time_min_2a_lact", code |-> "266"],
       [alias |-> "daily_rest_time_min_3plus_lact", code |-> "273"],
       [alias |-> "pct_vacas_c_prob_digestivos", code |-> "291d"],
       [alias |-> "pct_vacas_c_prob_locomotores", code |-> "293d"],
       [alias |-> "pct_total_abortos_vacas_m", code |-> "329l"],
       [alias |-> "deteccion_de_celos_ult2", code |-> "125"],
       [alias |-> "taza_prenez_21_dias", code |-> "134"],
       [alias |-> "dias_abiertos_mx", code |-> "24a"] >>

RegistryIndex == 1..Len(CORE_TRIAGE_KPIS)

\* {entry["alias"]: entry["code"] for entry in CORE_TRIAGE_KPIS}: the last entry wins
alias_to_code ==
    [a \in { CORE_TRIAGE_KPIS[i].alias : i \in RegistryIndex } |->
        LET last == CHOOSE i \in RegistryIndex :
                        /\ CORE_TRIAGE_KPIS[i].alias = a
                        /\ \A j \in RegistryIndex : CORE_TRIAGE_KPIS[j].alias = a => j <= i
        IN  CORE_TRIAGE_KPIS[last].code]

\* {entry["code"]: entry["alias"] for entry in CORE_TRIAGE_KPIS}
code_to_alias ==
    [c \in { CORE_TRIAGE_KPIS[i].code : i \in RegistryIndex } |->
        LET last == CHOOSE i \in RegistryIndex :
                        /\ CORE_TRIAGE_KPIS[i].code = c
                        /\ \A j \in RegistryIndex : CORE_TRIAGE_KPIS[j].code = c => j <= i
        IN  CORE_TRIAGE_KPIS[last].alias]

\* the loop as it would be without the strip() of line 94
RECURSIVE resolve_loop_unstripped(_, _, _, _)
resolve_loop_unstripped(items, codes, aliases, unknown_alias) ==
    IF items = << >>
    THEN [codes |-> codes, aliases |-> aliases, unknown_alias |-> unknown_alias]
    ELSE LET item == Head(items)
             normalized == Join(item)
             slug == Join(_slugify(item))
         IN  IF item = << >>
             THEN resolve_loop_unstripped(Tail(items), codes, aliases, unknown_alias)
             ELSE IF normalized \in DOMAIN alias_to_code
             THEN resolve_loop_unstripped(Tail(items),
                                          Append(codes, alias_to_code[normalized]),
                                          aliases \cup { normalized }, unknown_alias)
             ELSE IF normalized \in DOMAIN code_to_alias
             THEN resolve_loop_unstripped(Tail(items), Append(codes, normalized),
                                          aliases \cup { code_to_alias[normalized] },
                                          unknown_alias)
             ELSE IF slug \in DOMAIN alias_to_code
             THEN resolve_loop_unstripped(Tail(items), Append(codes, alias_to_code[slug]),
                                          aliases \cup { slug }, unknown_alias)
             ELSE resolve_loop_unstripped(Tail(items), Append(codes, normalized), aliases,
                                          TRUE)

\* the loop over requested of _resolve_kpi_selection
RECURSIVE resolve_loop(_, _, _, _)
resolve_loop(items, codes, aliases, unknown_alias) ==
    IF items = << >>
    THEN [codes |-> codes, aliases |-> aliases, unknown_alias |-> unknown_alias]
    ELSE LET item == Head(items)
             normalized == Join(strip(item, Whitespace))
             slug == Join(_slugify(strip(item, Whitespace)))
         IN  IF item = << >>
             THEN resolve_loop(Tail(items), codes, aliases, unknown_alias)
             ELSE IF normalized \in DOMAIN alias_to_code
             THEN resolve_loop(Tail(items), Append(codes, alias_to_code[normalized]),
                               aliases \cup { normalized }, unknown_alias)
             ELSE IF normalized \in DOMAIN code_to_alias
             THEN resolve_loop(Tail(items), Append(codes, normalized),
                               aliases \cup { code_to_alias[normalized] }, unknown_alias)
             ELSE IF slug \in DOMAIN alias_to_code
             THEN resolve_loop(Tail(items), Append(codes, alias_to_code[slug]),
                               aliases \cup { slug }, unknown_alias)
             ELSE resolve_loop(Tail(items), Append(codes, normalized), aliases, TRUE)

\* the resolution as it would be with "if requested is None" at line 81
_resolve_kpi_selection_none_only(requested) ==
    IF requested.is_none
    THEN [codes |-> [i \in RegistryIndex |-> CORE_TRIAGE_KPIS[i].code],
          whitelist |-> [is_none |-> FALSE, aliases |-> DOMAIN alias_to_code]]
    ELSE LET r == resolve_loop(requested.items, << >>, { }, FALSE)
         IN  [codes |-> r.codes,
              whitelist |-> IF r.unknown_alias THEN None
                            ELSE [is_none |-> FALSE, aliases |-> r.aliases]]

\* pre_analyzer_agent._resolve_kpi_selection
_resolve_kpi_selection(requested) ==
    IF requested.is_none \/ requested.items = << >>
    THEN [codes |-> [i \in RegistryIndex |-> CORE_TRIAGE_KPIS[i].code],
          whitelist |-> [is_none |-> FALSE, aliases |-> DOMAIN alias_to_code]]
    ELSE LET r == resolve_loop(requested.items, << >>, { }, FALSE)
         IN  [codes |-> r.codes,
              whitelist |-> IF r.unknown_alias THEN None
                            ELSE [is_none |-> FALSE, aliases |-> r.aliases]]

-----------------------------------------------------------------------------
(* run_pre_analysis *)

\* batch_size of the batch loop
batch_size == 4

\* the batch count as it would be with floor division
total_batches_floor == Len(kpi_codes) \div batch_size

\* math.ceil(len(kpi_codes) / batch_size)
total_batches == Ceil(Len(kpi_codes), batch_size)

\* kpi_codes[i * batch_size : (i + 1) * batch_size]
Chunk(codes, i) ==
    SubSeq(codes, i * batch_size + 1,
           IF (i + 1) * batch_size < Len(codes) THEN (i + 1) * batch_size ELSE Len(codes))

\* Python floats are IEEE 754 binary64.  A positive normal value is [m, e] for
\* m * 2^e with 2^52 <= m < 2^53.  A natural number of any size is the sequence
\* of its digits in base 2^LimbBits, least significant first, without a most
\* significant zero; 0 is the empty sequence.
Precision == 53

LimbBits == 13

Base == 2 ^ LimbBits

\* bits appended to a dividend, enough for a guard bit with divisors below 64
GuardBits == 8

RECURSIVE ToNat(_)
ToNat(n) == IF n = 0 THEN << >> ELSE << n % Base >> \o ToNat(n \div Base)

RECURSIVE Trim(_)
Trim(a) ==
    IF a # << >> /\ a[Len(a)] = 0 THEN Trim(SubSeq(a, 1, Len(a) - 1)) ELSE a

\* a * k + carry, for k < 2^17
RECURSIVE NatMulCarry(_, _, _)
NatMulCarry(a, k, carry) ==
    IF a = << >> THEN ToNat(carry)
    ELSE << (Head(a) * k + carry) % Base >>
         \o NatMulCarry(Tail(a), k, (Head(a) * k + carry) \div Base)

NatMul(a, k) == Trim(NatMulCarry(a, k, 0))

\* a + b + carry
RECURSIVE NatAddCarry(_, _, _)
NatAddCarry(a, b, carry) ==
    IF a = << >> THEN NatMulCarry(b, 1, carry)
    ELSE IF b = << >> THEN NatMulCarry(a, 1, carry)
    ELSE << (Head(a) + Head(b) + carry) % Base >>
         \o NatAddCarry(Tail(a), Tail(b), (Head(a) + Head(b) + carry) \div Base)

NatAdd(a, b) == NatAddCarry(a, b, 0)

\* quotient and remainder of the n highest digits of a by k, for k < 2^17;
\* rem and q are those of the digits above
RECURSIVE NatDivFrom(_, _, _, _, _)
NatDivFrom(a, k, n, rem, q) ==
    IF n = 0 THEN [q |-> Trim(q), r |-> rem]
    ELSE NatDivFrom(a, k, n - 1, (rem * Base + a[n]) % k,
                    << (rem * Base + a[n]) \div k >> \o q)

NatDivMod(a, k) == NatDivFrom(a, k, Len(a), 0, << >>)

NatLess(a, b) ==
    \/ Len(a) < Len(b)
    \/ /\ Len(a) = Len(b)
       /\ \E i \in 1..Len(a) : a[i] < b[i] /\ \A j \in (i + 1)..Len(a) : a[j] = b[j]

RECURSIVE BitLength(_)
BitLength(n) == IF n = 0 THEN 0 ELSE 1 + BitLength(n \div 2)

NatBitLength(a) ==
    IF a = << >> THEN 0 ELSE LimbBits * (Len(a) - 1) + BitLength(a[Len(a)])

\* a * 2^s
RECURSIVE ShiftLeft(_, _)
ShiftLeft(a, s) ==
    IF a = << >> THEN a
    ELSE IF s >= LimbBits THEN << 0 >> \o ShiftLeft(a, s - LimbBits)
    ELSE NatMul(a, 2 ^ s)

\* n * 2^e, plus something below 2^e when sticky, rounded to Precision bits, to
\* nearest, ties to even
RECURSIVE RoundNearestEven(_, _, _)
RoundNearestEven(n, e, sticky) ==
    LET excess == NatBitLength(n) - Precision
    IN  IF excess <= 0 THEN [m |-> ShiftLeft(n, 0 - excess), e |-> e + excess]
        ELSE IF excess > LimbBits
        THEN RoundNearestEven(Tail(n), e + LimbBits, sticky \/ Head(n) # 0)
        ELSE LET d == NatDivMod(n, 2 ^ excess)
                 half == 2 ^ (excess - 1)
                 up == \/ d.r > half
                       \/ d.r = half /\ (sticky \/ d.q[1] % 2 = 1)
                 r == IF up THEN NatAdd(d.q, << 1 >>) ELSE d.q
             IN  IF NatBitLength(r) > Precision
                 THEN [m |-> NatDivMod(r, 2).q, e |-> e + excess + 1]
                 ELSE [m |-> r, e |-> e + excess]

\* float * int, float / int and float + float, each correctly rounded
fmul_int(x, k) == RoundNearestEven(NatMul(x.m, k), x.e, FALSE)

fdiv_int(x, k) ==
    LET d == NatDivMod(ShiftLeft(x.m, GuardBits), k)
    IN  RoundNearestEven(d.q, x.e - GuardBits, d.r # 0)

fadd(x, y) ==
    LET e == IF x.e < y.e THEN x.e ELSE y.e
    IN  RoundNearestEven(NatAdd(ShiftLeft(x.m, x.e - e), ShiftLeft(y.m, y.e - e)), e, FALSE)

\* x <= y
Leq(x, y) == x = y \/ x.e < y.e \/ (x.e = y.e /\ NatLess(x.m, y.m))

HexDigits ==
    << "0", "1", "2", "3", "4", "5", "6", "7", "8", "9", "a", "b", "c", "d", "e", "f" >>

HexValue(h) == (CHOOSE i \in 1..Len(HexDigits) : HexDigits[i] = h) - 1

RECURSIVE HexToNat(_, _)
HexToNat(digits, n) ==
    IF digits = << >> THEN n
    ELSE HexToNat(Tail(digits),
                  NatAdd(NatMul(n, Len(HexDigits)), ToNat(HexValue(Head(digits)))))

\* the float that float.hex() prints as 0x1.<digits>p<p>
float_fromhex(digits, p) ==
    [m |-> HexToNat(digits, << 1 >>), e |-> p - 4 * Len(digits)]

\* the literals of run_pre_analysis
float_0_02 ==
    float_fromhex(<< "4", "7", "a", "e", "1", "4", "7", "a", "e", "1", "4", "7", "b" >>, -6)
float_0_20 ==
    float_fromhex(<< "9", "9", "9", "9", "9", "9", "9", "9", "9", "9", "9", "9", "a" >>, -3)
float_0_25 ==
    float_fromhex(<< "0", "0", "0", "0", "0", "0", "0", "0", "0", "0", "0", "0", "0" >>, -2)
float_0_4 ==
    float_fromhex(<< "9", "9", "9", "9", "9", "9", "9", "9", "9", "9", "9", "9", "a" >>, -2)
float_0_6 ==
    float_fromhex(<< "3", "3", "3", "3", "3", "3", "3", "3", "3", "3", "3", "3", "3" >>, -1)
float_1_0 ==
    float_fromhex(<< "0", "0", "0", "0", "0", "0", "0", "0", "0", "0", "0", "0", "0" >>, 0)

\* the progress value as it would be with idx in place of idx + 1
progress_position_off_by_one(i, total) ==
    fadd(float_0_02, fdiv_int(fmul_int(float_0_20, i), total))

\* 0.02 + (0.20 * (idx + 1) / total_batches), for i = idx
progress_position(i, total) ==
    fadd(float_0_02, fdiv_int(fmul_int(float_0_20, i + 1), total))

\* _notify: the callback, when given, receives the value; what it raises is swallowed
_notify(delivered, value) ==
    IF progress_callback # "none" THEN Append(delivered, value) ELSE delivered

\* The callbacks a caller may pass: None, one that returns, one that raises an
\* Exception at every call, one that raises at its odd calls only
Callbacks == { "none", "given", "raises", "raises_odd" }

\* the n-th call of the callback raises
callback_raises(n) ==
    \/ progress_callback = "raises"
    \/ progress_callback = "raises_odd" /\ n % 2 = 1

\* _notify as it would be without the try/except of lines 123-126: the
\* exception of the callback leaves run_pre_analysis
after_notify_uncaught(n, continues) ==
    IF callback_raises(n) THEN "raised" ELSE continues

\* lines 123-126: where run_pre_analysis goes on after the n-th call of the
\* callback; "except Exception" swallows what the callback raises
after_notify(n, continues) == continues

\* Tokens a caller may put into triage_kpis: an alias, a code with a leading
\* blank, a display name that only matches after slugify, an unknown token with
\* a leading blank, and the empty string
Tokens ==
    { << "p", "c", "t", "_", "c", "e", "t", "o", "s", "i", "s" >>,
      << " ", "2", "2", "8", "d" >>,
      << "P", "i", "c", "o", " ", "d", "e", " ", "P", "r", "o", "d", ".", " ", "1", "a",
         " ", "L", "a", "c", "t" >>,
      << " ", "x", "y", "z" >>,
      << >> }

\* length of the long request: one alias named so often that the codes fill 43
\* batches
LongReq == 169

\* a caller naming the same KPI LongReq times; every occurrence is appended
LongRequest ==
    [is_none |-> FALSE,
     items |-> [i \in 1..LongReq |-> << "p", "c", "t", "_", "c", "e", "t", "o", "s", "i", "s" >>]]

\* every selection of up to MaxReq tokens, and each of them repeated once and
\* twice, which is long enough for a second and a third batch and names KPIs
\* more than once; and the long request
Requests ==
    { None, LongRequest }
    \cup { [is_none |-> FALSE, items |-> s] : s \in SeqsUpTo(Tokens, MaxReq) }
    \cup { [is_none |-> FALSE, items |-> s \o s] : s \in SeqsUpTo(Tokens, MaxReq) }
    \cup { [is_none |-> FALSE, items |-> s \o s \o s] : s \in SeqsUpTo(Tokens, MaxReq) }

\* triage_kpis is not read after the selection is resolved
Forgotten == [is_none |-> FALSE, items |-> << >>, forgotten |-> TRUE]

\* longest run, in batches, whose answers after the first are varied
MaxVaried == 9

\* What the summarization collaborator may answer to call number n for the
\* requested codes: the summaries of exactly the requested KPIs with metadata, the
\* same plus a metric nobody asked for and no metadata, or (enumerated for the
\* first call of a run) a payload without summaries
ResponseKinds(n) ==
    IF n = 1 THEN { "exact", "extra", "error" }
    ELSE IF total_batches <= MaxVaried THEN { "exact", "extra" }
    ELSE { "exact" }

ServiceKeys(call) ==
    IF call.has_selected
    THEN { code_to_alias[c] :
             c \in { call.selected_kpis[i] : i \in 1..Len(call.selected_kpis) }
                   \cap DOMAIN code_to_alias }
    ELSE DOMAIN alias_to_code

Payload(kind, call, n) ==
    CASE kind = "exact" ->
           [has_summaries |-> TRUE, summaries |-> [k \in ServiceKeys(call) |-> n],
            meta |-> [k \in { "farm_code" } |-> n]]
      [] kind = "extra" ->
           [has_summaries |-> TRUE,
            summaries |-> [k \in ServiceKeys(call) \cup { "otro_kpi" } |-> n],
            meta |-> EmptyDict]
      [] kind = "error" ->
           [has_summaries |-> FALSE, summaries |-> EmptyDict,
            meta |-> [k \in { "error" } |-> n]]

\* what the classification collaborator may answer (opaque to run_pre_analysis)
ClassifierAnswers == { "triage" }

\* no direct call is under way
CallIdle ==
    /\ args = [fn |-> "none"]
    /\ ret = [returned |-> FALSE]

\* add_variables_context.py is not running
ContextIdle ==
    /\ ctx_entry = "none"
    /\ descriptions = << >>
    /\ chunk_size = 0
    /\ concurrency = 0
    /\ max_retries = 0
    /\ pa_pc = "idle"
    /\ batches = << >>
    /\ batch_results = << >>
    /\ semaphore = 0
    /\ worker = << >>
    /\ returned_by = << >>
    /\ completed = << >>
    /\ flat = [returned |-> FALSE]

TriageIdle ==
    /\ triage_kpis = None
    /\ progress_callback = "none"
    /\ pc = "idle"
    /\ kpi_codes = << >>
    /\ alias_whitelist = None
    /\ idx = 0
    /\ calls = << >>
    /\ failed_calls = 0
    /\ combined = EmptyDict
    /\ template = None
    /\ data = None
    /\ summaries_dict = [built |-> FALSE]
    /\ events = << >>
    /\ llm_calls = 0
    /\ result = [returned |-> FALSE]
    /\ in_flight = << >>
    /\ responses = << >>

\* lines 128-141: first notification and resolution of the selection
Resolve ==
    /\ pc = "start"
    /\ LET r == _resolve_kpi_selection(triage_kpis)
       IN  /\ kpi_codes' = r.codes
           /\ alias_whitelist' = r.whitelist
           /\ pc' = after_notify(Len(events) + 1,
                                 IF r.codes # << >> THEN "batch" ELSE "single")
    /\ events' = _notify(events, float_0_02)
    /\ UNCHANGED << triage_kpis, progress_callback, idx, calls, failed_calls, combined,
                    template, data, summaries_dict, llm_calls, result, in_flight, responses >>

\* the call of an iteration as it would be issued by a loop that does not wait
\* for the answer of the call before
BatchIssue_NoWait ==
    /\ pc = "batch"
    /\ idx < total_batches
    /\ Len(in_flight) < 2
    /\ LET call == [has_selected |-> TRUE, selected_kpis |-> Chunk(kpi_codes, Len(calls))]
       IN  /\ calls' = Append(calls, call)
           /\ in_flight' = Append(in_flight, call)
    /\ triage_kpis' = Forgotten
    /\ UNCHANGED << progress_callback, pc, kpi_codes, alias_whitelist, idx, failed_calls,
                    combined, template, data, summaries_dict, events, llm_calls, result,
                    responses >>

\* lines 147-151: an iteration of the batch loop builds its chunk and issues the
\* call; requests.get blocks, so no call is issued while one is awaited
BatchIssue ==
    /\ pc = "batch"
    /\ idx < total_batches
    /\ in_flight = << >>
    /\ LET call == [has_selected |-> TRUE, selected_kpis |-> Chunk(kpi_codes, idx)]
       IN  /\ calls' = Append(calls, call)
           /\ in_flight' = << call >>
    /\ triage_kpis' = Forgotten
    /\ UNCHANGED << progress_callback, pc, kpi_codes, alias_whitelist, idx, failed_calls,
                    combined, template, data, summaries_dict, events, llm_calls, result,
                    responses >>

\* the merge as it would be with an assignment: combined = payload["summaries"]
merge_summaries_overwrite(accumulated, payload) ==
    IF payload.has_summaries THEN payload.summaries ELSE EmptyDict

\* line 153: combined.update(payload.get("summaries", {}))
merge_summaries(accumulated, payload) ==
    DictUpdate(accumulated, IF payload.has_summaries THEN payload.summaries ELSE EmptyDict)

\* the capture as it would be if every batch replaced the template
capture_template_last(captured, payload) == [is_none |-> FALSE, fields |-> payload.meta]

\* lines 154-155: the template is taken from the first payload only
capture_template(captured, payload) ==
    IF captured.is_none THEN [is_none |-> FALSE, fields |-> payload.meta] ELSE captured

\* lines 151-160: the call of the iteration answers; the payload is merged, the
\* template captured, the progress notified; the last iteration leaves the loop
\* and assembles data
BatchOk ==
    /\ pc = "batch"
    /\ in_flight # << >>
    /\ \E kind \in ResponseKinds(Len(calls)) :
         LET payload == Payload(kind, Head(in_flight), Len(calls))
             merged == merge_summaries(combined, payload)
             captured == capture_template(template, payload)
         IN  /\ responses' = Append(responses, payload)
             /\ combined' = merged
             /\ template' = captured
             /\ data' = IF idx + 1 = total_batches
                        THEN [is_none |-> FALSE, has_summaries |-> TRUE,
                              summaries |-> merged, meta |-> captured.fields]
                        ELSE data
    /\ in_flight' = Tail(in_flight)
    /\ events' = _notify(events, progress_position(idx, total_batches))
    /\ idx' = idx + 1
    /\ pc' = after_notify(Len(events) + 1,
                          IF idx + 1 = total_batches THEN "fetched" ELSE "batch")
    /\ UNCHANGED << triage_kpis, progress_callback, kpi_codes, alias_whitelist, calls,
                    failed_calls, summaries_dict, llm_calls, result >>

\* the failed call of an iteration as it would be with a retry of the batch
BatchFail_Retry ==
    /\ pc = "batch"
    /\ in_flight # << >>
    /\ failed_calls < 2
    /\ in_flight' = Tail(in_flight)
    /\ failed_calls' = failed_calls + 1
    /\ UNCHANGED << triage_kpis, progress_callback, pc, kpi_codes, alias_whitelist, idx,
                    calls, combined, template, data, summaries_dict, events, llm_calls,
                    result, responses >>

\* lines 151-152: the call of an iteration fails; _call_summary raises
BatchFail ==
    /\ pc = "batch"
    /\ in_flight # << >>
    /\ in_flight' = Tail(in_flight)
    /\ failed_calls' = failed_calls + 1
    /\ pc' = "raised"
    /\ UNCHANGED << triage_kpis, progress_callback, kpi_codes, alias_whitelist, idx, calls,
                    combined, template, data, summaries_dict, events, llm_calls, result,
                    responses >>

\* the single call as it would be if it went through the batching code with an
\* empty chunk: params["selected_kpis"] = []
SingleIssue_EmptyChunk ==
    /\ pc = "single"
    /\ in_flight = << >>
    /\ LET call == [has_selected |-> TRUE, selected_kpis |-> << >>]
       IN  /\ calls' = Append(calls, call)
           /\ in_flight' = << call >>
    /\ triage_kpis' = Forgotten
    /\ UNCHANGED << progress_callback, pc, kpi_codes, alias_whitelist, idx, failed_calls,
                    combined, template, data, summaries_dict, events, llm_calls, result,
                    responses >>

\* line 162: the single call, without selected_kpis, is issued
SingleIssue ==
    /\ pc = "single"
    /\ in_flight = << >>
    /\ LET call == [has_selected |-> FALSE, selected_kpis |-> << >>]
       IN  /\ calls' = Append(calls, call)
           /\ in_flight' = << call >>
    /\ triage_kpis' = Forgotten
    /\ UNCHANGED << progress_callback, pc, kpi_codes, alias_whitelist, idx, failed_calls,
                    combined, template, data, summaries_dict, events, llm_calls, result,
                    responses >>

\* line 162: the single call answers
SingleOk ==
    /\ pc = "single"
    /\ in_flight # << >>
    /\ \E kind \in ResponseKinds(Len(calls)) :
         LET payload == Payload(kind, Head(in_flight), Len(calls))
         IN  /\ responses' = Append(responses, payload)
             /\ data' = [is_none |-> FALSE, has_summaries |-> payload.has_summaries,
                         summaries |-> payload.summaries, meta |-> payload.meta]
    /\ in_flight' = Tail(in_flight)
    /\ pc' = "fetched"
    /\ UNCHANGED << triage_kpis, progress_callback, kpi_codes, alias_whitelist, idx, calls,
                    failed_calls, combined, template, summaries_dict, events, llm_calls,
                    result >>

\* line 162: the single call fails
SingleFail ==
    /\ pc = "single"
    /\ in_flight # << >>
    /\ in_flight' = Tail(in_flight)
    /\ failed_calls' = failed_calls + 1
    /\ pc' = "raised"
    /\ UNCHANGED << triage_kpis, progress_callback, kpi_codes, alias_whitelist, idx, calls,
                    combined, template, data, summaries_dict, events, llm_calls, result,
                    responses >>

\* lines 169-175: summaries_dict, filtered when the whitelist is truthy
FilterSummaries(d, whitelist) ==
    LET raw == IF d.has_summaries THEN d.summaries ELSE EmptyDict
    IN  IF ~whitelist.is_none /\ whitelist.aliases # { }
        THEN [metric \in (DOMAIN raw) \cap whitelist.aliases |-> raw[metric]]
        ELSE raw

\* lines 166, 186, 215: the notifications before the classification call
PreparedEvents ==
    _notify(_notify(_notify(events, float_0_25), float_0_4), float_0_6)

\* lines 166-216: the notifications, the filter and the prompt; the classification
\* call is issued and run_pre_analysis waits for its answer
ClassifyIssue ==
    /\ pc = "fetched"
    /\ summaries_dict' = [built |-> TRUE, entries |-> FilterSummaries(data, alias_whitelist)]
    /\ llm_calls' = llm_calls + 1
    /\ events' = PreparedEvents
    /\ pc' = after_notify(Len(events) + 1,
                after_notify(Len(events) + 2,
                  after_notify(Len(events) + 3, "classifying")))
    /\ UNCHANGED << triage_kpis, progress_callback, kpi_codes, alias_whitelist, idx, calls,
                    failed_calls, combined, template, data, result, in_flight, responses >>

\* lines 216-229: the classification call answers JSON; final notification and return
ClassifyOk ==
    /\ pc = "classifying"
    /\ events' = _notify(events, float_1_0)
    /\ \E answer \in ClassifierAnswers : result' = [returned |-> TRUE, value |-> answer]
    /\ pc' = after_notify(Len(events) + 1, "returned")
    /\ UNCHANGED << triage_kpis, progress_callback, kpi_codes, alias_whitelist, idx, calls,
                    failed_calls, combined, template, data, summaries_dict, llm_calls,
                    in_flight, responses >>

\* lines 216-227: the classification call or the parse of its answer raises
ClassifyFail ==
    /\ pc = "classifying"
    /\ pc' = "raised"
    /\ UNCHANGED << triage_kpis, progress_callback, kpi_codes, alias_whitelist, idx, calls,
                    failed_calls, combined, template, data, summaries_dict, events,
                    llm_calls, result, in_flight, responses >>

\* the orchestration is not running while run_pre_analysis is studied alone
PipelineIdle ==
    /\ entry = "none"
    /\ phase = "IDLE"
    /\ pre_summary = [stored |-> FALSE]
    /\ scheduled = FALSE
    /\ tasks = << >>
    /\ task_state = EmptyDict
    /\ domains = [built |-> FALSE]
    /\ synth_calls = 0
    /\ render = "idle"
    /\ report = [returned |-> FALSE]

TriageInit ==
    /\ triage_kpis \in Requests
    /\ progress_callback \in Callbacks
    /\ pc = "start"
    /\ kpi_codes = << >>
    /\ alias_whitelist = None
    /\ idx = 0
    /\ calls = << >>
    /\ failed_calls = 0
    /\ combined = EmptyDict
    /\ template = None
    /\ data = None
    /\ summaries_dict = [built |-> FALSE]
    /\ events = << >>
    /\ llm_calls = 0
    /\ result = [returned |-> FALSE]
    /\ in_flight = << >>
    /\ responses = << >>
    /\ PipelineIdle
    /\ CallIdle
    /\ ContextIdle

-----------------------------------------------------------------------------
(* helpers.normalize_kpi_list and domain_config *)

\* A KPI suggestion of the classifier: a bare string, or a dict given as its
\* entries in insertion order, each [key, is_str, value]
Str(s) == [kind |-> "str", value |-> s]
Dict(entries) == [kind |-> "dict", entries |-> entries]

preferred_keys == << "metric", "kpi", "name", "id" >>

\* item.get(key) is a str
HasStr(item, key) ==
    \E i \in 1..Len(item.entries) : item.entries[i].key = key /\ item.entries[i].is_str

GetValue(item, key) ==
    item.entries[CHOOSE i \in 1..Len(item.entries) : item.entries[i].key = key].value

\* the candidate of one item as it would be without the second loop (lines
\* 176-180): only the preferred keys are looked at
Candidate_PreferredOnly(item) ==
    IF item.kind = "str" THEN item.value
    ELSE IF item.kind = "dict" /\ \E p \in 1..Len(preferred_keys) : HasStr(item, preferred_keys[p])
    THEN LET p == CHOOSE q \in 1..Len(preferred_keys) :
                      /\ HasStr(item, preferred_keys[q])
                      /\ \A r \in 1..(q - 1) : ~HasStr(item, preferred_keys[r])
         IN  GetValue(item, preferred_keys[p])
    ELSE ""

\* lines 166-180 of normalize_kpi_list: the candidate of one item, "" standing
\* for no candidate (both are falsy at line 182)
Candidate(item) ==
    IF item.kind = "str" THEN item.value
    ELSE IF item.kind = "dict"
    THEN IF \E p \in 1..Len(preferred_keys) : HasStr(item, preferred_keys[p])
         THEN LET p == CHOOSE q \in 1..Len(preferred_keys) :
                           /\ HasStr(item, preferred_keys[q])
                           /\ \A r \in 1..(q - 1) : ~HasStr(item, preferred_keys[r])
              IN  GetValue(item, preferred_keys[p])
         ELSE IF \E i \in 1..Len(item.entries) : item.entries[i].is_str
         THEN LET i == CHOOSE j \in 1..Len(item.entries) :
                           /\ item.entries[j].is_str
                           /\ \A r \in 1..(j - 1) : ~item.entries[r].is_str
              IN  item.entries[i].value
         ELSE ""
    ELSE ""

RECURSIVE normalize_loop(_, _)
normalize_loop(kpis, normalized) ==
    IF kpis = << >> THEN normalized
    ELSE LET candidate == Candidate(Head(kpis))
         IN  IF candidate # "" /\ \A i \in 1..Len(normalized) : normalized[i] # candidate
             THEN normalize_loop(Tail(kpis), Append(normalized, candidate))
             ELSE normalize_loop(Tail(kpis), normalized)

\* helpers.normalize_kpi_list: a list of strings
normalize_kpi_list(kpis) == normalize_loop(kpis, << >>)

\* domain_config._slugify: no diacritic stripping, leading and trailing
\* whitespace stripped first
domain_config_slugify(text) ==
    strip(collapse_underscores(slug_replacements(lower(strip(text, Whitespace)))), { "_" })

DomainSpelling ==
    ("Fertility" :> << "F", "e", "r", "t", "i", "l", "i", "t", "y" >>)
    @@ ("Production" :> << "P", "r", "o", "d", "u", "c", "t", "i", "o", "n" >>)
    @@ ("Health" :> << "H", "e", "a", "l", "t", "h" >>)
    @@ ("Calf Raising" :> << "C", "a", "l", "f", " ", "R", "a", "i", "s", "i", "n", "g" >>)
    @@ ("Culling" :> << "C", "u", "l", "l", "i", "n", "g" >>)
    @@ ("Feeding" :> << "F", "e", "e", "d", "i", "n", "g" >>)

\* data/domain_kpis.json as _load_domain_config returns it, in file order: one
\* section found by its key, one by its description, one by the slug of its key,
\* and none for Culling.  An entry with an empty alias falls back to its name,
\* one with an empty name too to its code, when it has one.
domain_kpis_json ==
    << [key |-> << "F", "e", "r", "t", "i", "l", "i", "t", "y" >>,
        description |-> << "F", "e", "r", "t", "i", "l", "i", "t", "y" >>,
        kpis |-> << [alias |-> "pct_partos_logrados", name |-> << >>],
                    [alias |-> "taza_prenez_21_dias", name |-> << >>],
                    [alias |-> "pct_partos_logrados", name |-> << >>] >>],
       [key |-> << "P", "r", "o", "d", "u", "c", "c", "i", "o", "n" >>,
        description |-> << "P", "r", "o", "d", "u", "c", "t", "i", "o", "n" >>,
        kpis |-> << [alias |-> "prod_a_305_del_1a_lact", name |-> << >>],
                    [alias |-> "",
                     name |-> << "P", "i", "c", "o", " ", "d", "e", " ", "P", "r", "o", "d",
                                 ".", " ", "1", "a", " ", "L", "a", "c", "t" >>] >>],
       [key |-> << "H", "e", "a", "l", "t", "h" >>,
        description |-> << "S", "a", "l", "u", "d" >>,
        kpis |-> << [alias |-> "pct_cetosis", name |-> << >>] >>],
       [key |-> << "c", "a", "l", "f", "-", "r", "a", "i", "s", "i", "n", "g" >>,
        description |-> << "C", "r", "i", "a", "n", "z", "a" >>,
        kpis |-> << [alias |-> "eficiencia_de_ganancia_de_peso", name |-> << >>],
                    [alias |-> "", name |-> << >>, code |-> << "7", "9" >>],
                    [alias |-> "", name |-> << >>] >> ] >>

\* lines 62-69 of get_domain_kpi_aliases: alias, else the slug of the name, else
\* the slug of the code; an entry left without alias is skipped
RECURSIVE entry_aliases(_, _)
entry_aliases(entries, aliases) ==
    IF entries = << >> THEN aliases
    ELSE LET item == Head(entries)
             code == IF "code" \in DOMAIN item THEN item.code ELSE << >>
             alias == IF item.alias # "" THEN item.alias
                      ELSE Join(domain_config_slugify(
                                    IF item.name # << >> THEN item.name ELSE code))
         IN  IF alias # "" /\ \A i \in 1..Len(aliases) : aliases[i] # alias
             THEN entry_aliases(Tail(entries), Append(aliases, alias))
             ELSE entry_aliases(Tail(entries), aliases)

\* domain_config.get_domain_kpi_aliases
compute_domain_kpi_aliases(domain) ==
    LET config == domain_kpis_json
        spelled == DomainSpelling[domain]
        target == domain_config_slugify(spelled)
        Exact(i) == config[i].key = spelled
        BySlug(i) == \/ domain_config_slugify(config[i].key) = target
                     \/ domain_config_slugify(config[i].description) = target
    IN  IF config = << >> THEN << >>
        ELSE IF \E i \in 1..Len(config) : Exact(i)
        THEN entry_aliases(config[CHOOSE i \in 1..Len(config) : Exact(i)].kpis, << >>)
        ELSE IF \E i \in 1..Len(config) : BySlug(i)
        THEN entry_aliases(config[CHOOSE i \in 1..Len(config) :
                                      BySlug(i) /\ \A j \in 1..(i - 1) : ~BySlug(j)].kpis,
                           << >>)
        ELSE << >>

\* get_domain_kpi_aliases on the names the pipeline uses, computed once: the
\* configuration is loaded once (lru_cache) and never changes
domain_kpi_aliases == [d \in DOMAIN DomainSpelling |-> compute_domain_kpi_aliases(d)]

get_domain_kpi_aliases(domain) == domain_kpi_aliases[domain]

\* "if alias" for a str or a dict
Falsy(item) == item = Str("") \/ item = Dict(<< >>)

\* the two loops of build_domain_kpi_list over one bucket
RECURSIVE merge_bucket(_, _)
merge_bucket(bucket, merged) ==
    IF bucket = << >> THEN merged
    ELSE LET alias == Head(bucket)
         IN  IF ~Falsy(alias) /\ \A i \in 1..Len(merged) : merged[i] # alias
             THEN merge_bucket(Tail(bucket), Append(merged, alias))
             ELSE merge_bucket(Tail(bucket), merged)

Strs(names) == [i \in 1..Len(names) |-> Str(names[i])]

\* the merge with the two buckets in the other order: defaults first
build_domain_kpi_list_defaults_first(domain, prioritized) ==
    merge_bucket(prioritized, merge_bucket(Strs(get_domain_kpi_aliases(domain)), << >>))

\* domain_config.build_domain_kpi_list; prioritized is a list of suggestions
build_domain_kpi_list(domain, prioritized) ==
    merge_bucket(Strs(get_domain_kpi_aliases(domain)), merge_bucket(prioritized, << >>))

-----------------------------------------------------------------------------
(* The per-domain agents *)

\* the "no data" result of an agent, lines 32-38 of fertility_agent.py
NoDataResult(domain_field, kpi_names) ==
    [has_domain |-> TRUE, domain |-> domain_field, source |-> "nodata",
     issues |-> << >>,
     recommendations |-> [Immediate |-> << >>, Short |-> << >>, Medium |-> << >>,
                          Long |-> << >>],
     kpis_to_plot |-> kpi_names]

\* json.loads of the model's answer: a dict that names its domain as the prompt
\* asks, or one without a "domain" key
LlmResult(domain, outcome) ==
    IF outcome = "data" THEN [has_domain |-> TRUE, domain |-> domain, source |-> "llm"]
    ELSE [has_domain |-> FALSE, source |-> "llm"]

\* kpi_names as they would be without the merge with the domain defaults
KpiNames_RequestOnly(domain, kpis) == Strs(normalize_kpi_list(kpis))

\* kpi_names of the agents that normalize and merge their kpis argument
KpiNames(domain, kpis) == build_domain_kpi_list(domain, Strs(normalize_kpi_list(kpis)))

run_fertility_agent(kpis, outcome) ==
    IF outcome = "nodata" THEN NoDataResult("Production", KpiNames("Fertility", kpis))
    ELSE LlmResult("Fertility", outcome)

run_production_agent(kpis, outcome) ==
    IF outcome = "nodata" THEN NoDataResult("Production", KpiNames("Production", kpis))
    ELSE LlmResult("Production", outcome)

run_health_agent(kpis, outcome) ==
    IF outcome = "nodata" THEN NoDataResult("Production", KpiNames("Health", kpis))
    ELSE LlmResult("Health", outcome)

run_calf_agent(kpis, outcome) ==
    IF outcome = "nodata" THEN NoDataResult("Calf Raising", KpiNames("Calf Raising", kpis))
    ELSE LlmResult("Calf Raising", outcome)

\* what an agent hands back when it raises instead
AgentRaises(error) == [raised |-> TRUE, error |-> error]
Raised(r) == "raised" \in DOMAIN r

\* culling_agent.py uses kpis as it gets them: with rows, line 28 makes every entry of
\* kpis a dict key, and a dict is not hashable
run_culling_agent(kpis, outcome) ==
    IF outcome = "nodata" THEN NoDataResult("Production", kpis)
    ELSE IF \E i \in 1..Len(kpis) : kpis[i].kind = "dict" THEN AgentRaises("TypeError")
    ELSE LlmResult("Culling", outcome)

RunAgent(domain, kpis, outcome) ==
    CASE domain = "Fertility" -> run_fertility_agent(kpis, outcome)
      [] domain = "Production" -> run_production_agent(kpis, outcome)
      [] domain = "Health" -> run_health_agent(kpis, outcome)
      [] domain = "Calf Raising" -> run_calf_agent(kpis, outcome)
      [] domain = "Culling" -> run_culling_agent(kpis, outcome)

\* how a domain task may end without raising: no rows, an answer that names its
\* domain, an answer without a "domain" key
Outcomes == { "nodata", "data", "nodomain" }

-----------------------------------------------------------------------------
(* Orchestration: run_master_summary and the graph of build_agents_graph *)

\* the order of the five "if ... in domains_to_investigate" blocks
CanonicalDomains == << "Fertility", "Production", "Health", "Calf Raising", "Culling" >>

\* keys the classifier may use: its prompt also names Feeding
DomainKeys == { "Fertility", "Production", "Health", "Calf Raising", "Culling", "Feeding" }

\* lists the classifier may give for a domain: none, an alias, a record
SuggestionLists ==
    { << >>, << Str("pct_partos_logrados") >>,
      << Dict(<< [key |-> "metric", is_str |-> TRUE, value |-> "kpi_x"] >>) >> }

\* what run_pre_analysis may return
\* what run_pre_analysis may return: no domains_to_investigate, one of up to
\* MaxKeys keys with any lists, or one that names every domain
PreSummaries ==
    { [has_d2i |-> FALSE, domains_to_investigate |-> EmptyDict, has_summary |-> FALSE] }
    \cup { [has_d2i |-> TRUE, domains_to_investigate |-> f, has_summary |-> s] :
             f \in UNION { [K -> SuggestionLists] :
                             K \in { L \in SUBSET DomainKeys : Cardinality(L) <= MaxKeys } },
             s \in BOOLEAN }
    \cup { [has_d2i |-> TRUE,
            domains_to_investigate |-> [k \in DomainKeys |-> << Str("pct_partos_logrados") >>],
            has_summary |-> TRUE] }

\* pre_summary.get("domains_to_investigate", {})
DomainsToInvestigate(summary) ==
    IF summary.has_d2i THEN summary.domains_to_investigate ELSE EmptyDict

\* _prepare_domain_kpis of run_master_summary (lines 81-83)
master_prepare_domain_kpis(domain_name, suggested) ==
    build_domain_kpi_list(domain_name, Strs(normalize_kpi_list(suggested)))

\* _prepare_domain_kpis of agents_graph.py (lines 50-51)
graph_prepare_domain_kpis(domain, suggested) ==
    build_domain_kpi_list(domain, suggested)

\* the scheduling test as it would be if an empty list were skipped
IsScheduled_NonEmpty(domain, domains_to_investigate) ==
    /\ domain \in DOMAIN domains_to_investigate
    /\ domains_to_investigate[domain] # << >>

\* a domain gets a task when its key is in domains_to_investigate
IsScheduled(domain, domains_to_investigate) == domain \in DOMAIN domains_to_investigate

\* the task list built by the five blocks, in their order
RECURSIVE BuildTasks(_, _, _)
BuildTasks(which, domains_to_investigate, order) ==
    IF order = << >> THEN << >>
    ELSE LET d == Head(order)
             rest == BuildTasks(which, domains_to_investigate, Tail(order))
         IN  IF IsScheduled(d, domains_to_investigate)
             THEN << [domain |-> d,
                      kpis |-> IF which = "master"
                               THEN master_prepare_domain_kpis(d, domains_to_investigate[d])
                               ELSE graph_prepare_domain_kpis(d, domains_to_investigate[d])] >>
                  \o rest
             ELSE rest

\* {r["domain"]: r for r in results if "domain" in r}: later results win
RECURSIVE DomainsDict(_)
DomainsDict(results) ==
    IF results = << >> THEN EmptyDict
    ELSE LET r == results[Len(results)]
             before == DomainsDict(SubSeq(results, 1, Len(results) - 1))
         IN  IF r.has_domain THEN DictUpdate(before, [k \in { r.domain } |-> r]) ELSE before

\* results of asyncio.gather: in task order, whatever the completion order
GatherResults == [i \in 1..Len(tasks) |-> task_state[tasks[i].domain].result]

AllReturned == \A i \in 1..Len(tasks) : task_state[tasks[i].domain].state = "returned"
SomeRaised == \E i \in 1..Len(tasks) : task_state[tasks[i].domain].state = "raised"

Init ==
    /\ entry \in { "master", "graph" }
    /\ phase = "PRE_ANALYSIS"
    /\ pre_summary = [stored |-> FALSE]
    /\ scheduled = FALSE
    /\ tasks = << >>
    /\ task_state = EmptyDict
    /\ domains = [built |-> FALSE]
    /\ synth_calls = 0
    /\ render = "idle"
    /\ report = [returned |-> FALSE]
    /\ TriageIdle
    /\ CallIdle
    /\ ContextIdle

\* the pre-analysis step wired straight to the aggregation, past the fan-out
PreAnalysisOk_SkipFanOut ==
    /\ phase = "PRE_ANALYSIS"
    /\ \E summary \in PreSummaries : pre_summary' = [stored |-> TRUE, value |-> summary]
    /\ domains' = [built |-> TRUE, map |-> EmptyDict]
    /\ phase' = "AGGREGATE"
    /\ UNCHANGED << entry, render, scheduled, tasks, task_state, synth_calls, report >>

\* master lines 88-99, graph pre_analysis_node: run_pre_analysis returns
PreAnalysisOk ==
    /\ phase = "PRE_ANALYSIS"
    /\ \E summary \in PreSummaries : pre_summary' = [stored |-> TRUE, value |-> summary]
    /\ phase' = "FAN_OUT"
    /\ UNCHANGED << entry, render, scheduled, tasks, task_state, domains, synth_calls, report >>

\* run_pre_analysis raises
PreAnalysisFail ==
    /\ phase = "PRE_ANALYSIS"
    /\ phase' = "FAILED"
    /\ UNCHANGED << entry, render, pre_summary, scheduled, tasks, task_state, domains, synth_calls,
                    report >>

\* the scheduling as it would be with one task per key of
\* domains_to_investigate instead of the five fixed blocks
ScheduleTasks_EveryKey ==
    /\ phase = "FAN_OUT"
    /\ ~scheduled
    /\ scheduled' = TRUE
    /\ tasks' = BuildTasks(entry, DomainsToInvestigate(pre_summary.value),
                           CanonicalDomains \o << "Feeding" >>)
    /\ task_state' = [d \in { tasks'[i].domain : i \in 1..Len(tasks') } |->
                        [state |-> "pending"]]
    /\ UNCHANGED << entry, render, phase, pre_summary, domains, synth_calls, report >>

\* master lines 103-173, graph lines 60-97: build the tasks and hand them to gather
ScheduleTasks ==
    /\ phase = "FAN_OUT"
    /\ ~scheduled
    /\ scheduled' = TRUE
    /\ tasks' = BuildTasks(entry, DomainsToInvestigate(pre_summary.value), CanonicalDomains)
    /\ task_state' = [d \in { tasks'[i].domain : i \in 1..Len(tasks') } |->
                        [state |-> "pending"]]
    /\ UNCHANGED << entry, render, phase, pre_summary, domains, synth_calls, report >>

\* a domain agent running in its thread returns; the threads run on after gather has
\* propagated the exception of another task
TaskReturns ==
    /\ phase \in { "FAN_OUT", "FAILED" }
    /\ scheduled
    /\ \E i \in 1..Len(tasks), outcome \in Outcomes :
         LET r == RunAgent(tasks[i].domain, tasks[i].kpis, outcome)
         IN  /\ task_state[tasks[i].domain].state = "pending"
             /\ ~Raised(r)
             /\ task_state' = [task_state EXCEPT ![tasks[i].domain] =
                                  [state |-> "returned", result |-> r]]
    /\ UNCHANGED << entry, render, phase, pre_summary, scheduled, tasks, domains, synth_calls,
                    report >>

\* a domain agent raises (HTTP error, model call or json.loads failure, unhashable
\* kpi), before or after the run has failed
TaskRaises ==
    /\ phase \in { "FAN_OUT", "FAILED" }
    /\ scheduled
    /\ \E i \in 1..Len(tasks) :
         /\ task_state[tasks[i].domain].state = "pending"
         /\ task_state' = [task_state EXCEPT ![tasks[i].domain] = [state |-> "raised"]]
    /\ UNCHANGED << entry, render, phase, pre_summary, scheduled, tasks, domains, synth_calls,
                    report >>

\* the join as it would be with gather(..., return_exceptions=True) and the
\* failed tasks dropped: the run goes on with the domains that succeeded
JoinOk_Partial ==
    /\ phase = "FAN_OUT"
    /\ scheduled
    /\ \A i \in 1..Len(tasks) : task_state[tasks[i].domain].state # "pending"
    /\ LET done == SelectSeq(tasks, LAMBDA t : task_state[t.domain].state = "returned")
           results == [i \in 1..Len(done) |-> task_state[done[i].domain].result]
       IN  /\ entry = "graph" => \A i \in 1..Len(results) : results[i].has_domain
           /\ domains' = [built |-> TRUE, map |-> DomainsDict(results)]
    /\ phase' = "AGGREGATE"
    /\ UNCHANGED << entry, render, pre_summary, scheduled, tasks, task_state, synth_calls, report >>

\* gather returns; master lines 173-182, graph lines 94-98 and 119
JoinOk ==
    /\ phase = "FAN_OUT"
    /\ scheduled
    /\ AllReturned
    /\ entry = "graph" => \A i \in 1..Len(tasks) : GatherResults[i].has_domain
    /\ domains' = [built |-> TRUE, map |-> DomainsDict(GatherResults)]
    /\ phase' = "AGGREGATE"
    /\ UNCHANGED << entry, render, pre_summary, scheduled, tasks, task_state, synth_calls, report >>

\* graph line 98: item["domain"] of a result without that key raises KeyError
JoinKeyError ==
    /\ phase = "FAN_OUT"
    /\ scheduled
    /\ AllReturned
    /\ entry = "graph"
    /\ \E i \in 1..Len(tasks) : ~GatherResults[i].has_domain
    /\ phase' = "FAILED"
    /\ UNCHANGED << entry, render, pre_summary, scheduled, tasks, task_state, domains, synth_calls,
                    report >>

\* gather propagates the first exception of a task: the run fails
JoinFail ==
    /\ phase = "FAN_OUT"
    /\ scheduled
    /\ SomeRaised
    /\ phase' = "FAILED"
    /\ UNCHANGED << entry, render, pre_summary, scheduled, tasks, task_state, domains, synth_calls,
                    report >>

\* master lines 177-182, graph lines 127-132: the report before the synthesis;
\* summary and urgent_kpis of the pre-analysis result default to "" and []
combined_report(pre, domain_map) ==
    [farm_code |-> "GM",
     overview |-> IF pre.has_summary THEN "summary" ELSE "",
     domains |-> domain_map,
     urgent_kpis |-> IF pre.has_summary THEN << "pct_cetosis" >> ELSE << >>]

\* combined[key] = value
SetItem(d, key, value) ==
    [k \in (DOMAIN d) \cup { key } |-> IF k = key THEN value ELSE d[k]]

\* the report as it would be returned without the assignment of master line 226
with_final_summary_missing(report_dict, overall) == report_dict

\* master line 226, graph line 171: combined["final_summary"] = overall
with_final_summary(report_dict, overall) == SetItem(report_dict, "final_summary", overall)

\* What the rendering step may come to: not requested or no renderer ("off"),
\* PDF written ("saved"), the renderer raises ("failed")
RenderOutcomes == { "off", "saved", "failed" }

\* master lines 228-243: the renderer is called inside try/except Exception
master_render(report_dict, outcome) ==
    [returned |-> TRUE,
     combined |-> IF outcome = "saved" THEN SetItem(report_dict, "pdf_path", "report.pdf")
                  ELSE report_dict]

\* graph lines 189-196, run_with_pdf: the renderer is called without a handler,
\* its exception leaves invoke_with_pdf
graph_render(report_dict, outcome) ==
    IF outcome = "failed" THEN [returned |-> FALSE]
    ELSE [returned |-> TRUE, combined |-> report_dict]

\* master lines 186-212, graph lines 123-159: the report is assembled, the synthesis
\* call is issued and the run waits for its answer
SynthesizeIssue ==
    /\ phase = "AGGREGATE"
    /\ synth_calls = 0
    /\ synth_calls' = synth_calls + 1
    /\ UNCHANGED << entry, render, phase, pre_summary, scheduled, tasks, task_state, domains,
                    report >>

\* master lines 212-243: the synthesis call answers, final_summary is set, the
\* renderer is called and the report returned
\* graph lines 159-173: the synthesis call answers and graph.invoke returns; the
\* rendering of run_with_pdf follows
SynthesizeOk ==
    /\ phase = "AGGREGATE"
    /\ synth_calls > 0
    /\ render = "idle"
    /\ IF entry = "master"
       THEN \E outcome \in RenderOutcomes :
              LET report_dict ==
                      with_final_summary(combined_report(pre_summary.value, domains.map),
                                         "overall")
              IN  /\ render' = outcome
                  /\ report' = master_render(report_dict, outcome)
                  /\ phase' = "DONE"
       ELSE /\ render' = "pending"
            /\ UNCHANGED << report, phase >>
    /\ UNCHANGED << entry, pre_summary, scheduled, tasks, task_state, domains, synth_calls >>

\* graph lines 191-196: run_with_pdf has the result of graph.invoke and renders it
GraphRender ==
    /\ phase = "AGGREGATE"
    /\ entry = "graph"
    /\ render = "pending"
    /\ \E outcome \in RenderOutcomes :
         LET report_dict ==
                 with_final_summary(combined_report(pre_summary.value, domains.map),
                                    "overall")
             returned == graph_render(report_dict, outcome)
         IN  /\ render' = outcome
             /\ report' = returned
             /\ phase' = IF returned.returned THEN "DONE" ELSE "FAILED"
    /\ UNCHANGED << entry, pre_summary, scheduled, tasks, task_state, domains, synth_calls >>

\* the synthesis call or the parse of its answer raises
SynthesizeFail ==
    /\ phase = "AGGREGATE"
    /\ synth_calls > 0
    /\ render = "idle"
    /\ phase' = "FAILED"
    /\ UNCHANGED << entry, render, pre_summary, scheduled, tasks, task_state, domains,
                    synth_calls, report >>

Next ==
    \/ (PreAnalysisOk /\ UNCHANGED << triage_vars, call_vars, context_vars >>)
    \/ (PreAnalysisFail /\ UNCHANGED << triage_vars, call_vars, context_vars >>)
    \/ (ScheduleTasks /\ UNCHANGED << triage_vars, call_vars, context_vars >>)
    \/ (TaskReturns /\ UNCHANGED << triage_vars, call_vars, context_vars >>)
    \/ (TaskRaises /\ UNCHANGED << triage_vars, call_vars, context_vars >>)
    \/ (JoinOk /\ UNCHANGED << triage_vars, call_vars, context_vars >>)
    \/ (JoinKeyError /\ UNCHANGED << triage_vars, call_vars, context_vars >>)
    \/ (JoinFail /\ UNCHANGED << triage_vars, call_vars, context_vars >>)
    \/ (SynthesizeIssue /\ UNCHANGED << triage_vars, call_vars, context_vars >>)
    \/ (SynthesizeOk /\ UNCHANGED << triage_vars, call_vars, context_vars >>)
    \/ (GraphRender /\ UNCHANGED << triage_vars, call_vars, context_vars >>)
    \/ (SynthesizeFail /\ UNCHANGED << triage_vars, call_vars, context_vars >>)

Spec == Init /\ [][Next]_vars

TriageNext ==
    \/ (Resolve /\ UNCHANGED << pipeline_vars, call_vars, context_vars >>)
    \/ (BatchIssue /\ UNCHANGED << pipeline_vars, call_vars, context_vars >>)
    \/ (BatchOk /\ UNCHANGED << pipeline_vars, call_vars, context_vars >>)
    \/ (BatchFail /\ UNCHANGED << pipeline_vars, call_vars, context_vars >>)
    \/ (SingleIssue /\ UNCHANGED << pipeline_vars, call_vars, context_vars >>)
    \/ (SingleOk /\ UNCHANGED << pipeline_vars, call_vars, context_vars >>)
    \/ (SingleFail /\ UNCHANGED << pipeline_vars, call_vars, context_vars >>)
    \/ (ClassifyIssue /\ UNCHANGED << pipeline_vars, call_vars, context_vars >>)
    \/ (ClassifyOk /\ UNCHANGED << pipeline_vars, call_vars, context_vars >>)
    \/ (ClassifyFail /\ UNCHANGED << pipeline_vars, call_vars, context_vars >>)

TriageSpec == TriageInit /\ [][TriageNext]_vars

-----------------------------------------------------------------------------
(* Direct calls: a domain agent or a helper function called on its own *)

MaxKpis == 2

\* suggestions a caller may pass: two Fertility defaults, a KPI that is no
\* default of any domain, and the same KPI as a record
KpiItems ==
    { Str("pct_partos_logrados"), Str("taza_prenez_21_dias"), Str("kpi_x"),
      Dict(<< [key |-> "metric", is_str |-> TRUE, value |-> "kpi_x"] >>) }

KpiLists == UNION { [1..n -> KpiItems] : n \in 0..MaxKpis }

AgentCalls ==
    { [fn |-> "agent", domain |-> CanonicalDomains[d], kpis |-> k] :
        d \in 1..Len(CanonicalDomains), k \in KpiLists }

\* run_<domain>_agent(farm_code, kpis) with a data service that returns zero rows
AgentNoData ==
    /\ args.fn = "agent"
    /\ ~ret.returned
    /\ ret' = [returned |-> TRUE, value |-> RunAgent(args.domain, args.kpis, "nodata")]
    /\ UNCHANGED args

\* prioritized lists a caller may pass: the suggestions above and the empty string
MergeLists == UNION { [1..n -> KpiItems \cup { Str("") }] : n \in 0..MaxKpis }

MergeCalls ==
    { [fn |-> "build_domain_kpi_list", domain |-> d, prioritized |-> p] :
        d \in DomainKeys, p \in MergeLists }

\* build_domain_kpi_list(domain, prioritized)
MergeCall ==
    /\ args.fn = "build_domain_kpi_list"
    /\ ~ret.returned
    /\ ret' = [returned |-> TRUE,
               value |-> build_domain_kpi_list(args.domain, args.prioritized)]
    /\ UNCHANGED args

MaxSlugLen == 3

\* helpers._slugify with the underscores stripped from the text before the
\* replacements instead of from the alias after them
helpers_slugify_strip_first(value) ==
    LET normalized == SelectSeq(nfkd(value), LAMBDA ch : ~combining(ch))
    IN  collapse_underscores(slug_replacements(lower(strip(normalized, { "_" }))))

\* helpers._slugify
helpers_slugify(value) ==
    LET normalized == SelectSeq(nfkd(value), LAMBDA ch : ~combining(ch))
    IN  strip(collapse_underscores(slug_replacements(lower(normalized))), { "_" })

\* DairyKPIClient._make_alias: no diacritic stripping, no whitespace stripping
_make_alias(description) ==
    strip(collapse_underscores(slug_replacements(lower(description))), { "_" })

\* the characters the slugify functions handle (a lower-case and an upper-case
\* letter, a digit, every character they replace or delete, the underscore),
\* an accented letter and a tab
HandledAlphabet ==
    { "a", "A", "1", "%", "<", ">", "+", "(", ")", ".", ",", "/", " ", "-", "_" }
SlugAlphabet == HandledAlphabet \cup { "é", "\t" }

SlugifyCalls == { [fn |-> "slugify", text |-> t] : t \in SeqsUpTo(SlugAlphabet, MaxSlugLen) }

\* one call of a slugify implementation
Slugified(impl, value) ==
    /\ args.fn = "slugify"
    /\ ~ret.returned
    /\ ret' = [returned |-> TRUE, impl |-> impl, value |-> value]
    /\ UNCHANGED args

SlugifyHelpers == Slugified("helpers._slugify", helpers_slugify(args.text))
SlugifyPreAnalyzer == Slugified("pre_analyzer_agent._slugify", _slugify(args.text))
SlugifyDomainConfig == Slugified("domain_config._slugify", domain_config_slugify(args.text))
MakeAlias == Slugified("DairyKPIClient._make_alias", _make_alias(args.text))

MaxEdges == 3

\* risks.sort(key=lambda x: x["risk"], reverse=True): a stable sort, so edges
\* of equal risk keep their order
RECURSIVE sort_by_risk_reverse(_)
sort_by_risk_reverse(risks) ==
    IF risks = << >> THEN << >>
    ELSE LET last == risks[Len(risks)]
             before == sort_by_risk_reverse(SubSeq(risks, 1, Len(risks) - 1))
             pos == Cardinality({ i \in 1..Len(before) : before[i].risk >= last.risk })
         IN  SubSeq(before, 1, pos) \o << last >> \o SubSeq(before, pos + 1, Len(before))

\* seq[:n] for n >= 0
Slice(seq, n) == SubSeq(seq, 1, IF n < Len(seq) THEN n ELSE Len(seq))

\* get_kpi_level_risks with the ascending sort reversed, which turns the order
\* of edges of equal risk around
get_kpi_level_risks_ties_reversed(kpi_name, causal_kpi_graph, min_risk, max_results) ==
    IF kpi_name \notin DOMAIN causal_kpi_graph THEN << >>
    ELSE LET risks == SelectSeq(causal_kpi_graph[kpi_name], LAMBDA r : r.risk >= min_risk)
             sorted == sort_by_risk_reverse([i \in 1..Len(risks) |-> risks[Len(risks) + 1 - i]])
             top == Slice(sorted, max_results)
         IN  [i \in 1..Len(top) |-> top[i].kpi]

\* helpers.get_kpi_level_risks; risks are in hundredths
get_kpi_level_risks(kpi_name, causal_kpi_graph, min_risk, max_results) ==
    IF kpi_name \notin DOMAIN causal_kpi_graph THEN << >>
    ELSE LET risks == SelectSeq(causal_kpi_graph[kpi_name], LAMBDA r : r.risk >= min_risk)
             sorted == sort_by_risk_reverse(risks)
             top == Slice(sorted, max_results)
         IN  [i \in 1..Len(top) |-> top[i].kpi]

\* the i-th edge of a KPI points at the i-th of these KPIs
EdgeTargets == << "A", "B", "C", "D" >>
RiskLevels == { 5, 20, 90 }

\* causal_kpi_graph.json: the edges of X with every choice of risks, and no
\* entry for any other KPI
KpiGraphs ==
    { [k \in { "X" } |-> [i \in 1..Len(levels) |-> [kpi |-> EdgeTargets[i], risk |-> levels[i]]]] :
        levels \in SeqsUpTo(RiskLevels, MaxEdges) }

KpiRiskCalls ==
    { [fn |-> "get_kpi_level_risks", kpi_name |-> k, causal_kpi_graph |-> g,
       min_risk |-> m, max_results |-> n] :
        k \in { "X", "Y" }, g \in KpiGraphs, m \in { 10, 20 }, n \in { 0, 1, 2, 10 } }

KpiRiskCall ==
    /\ args.fn = "get_kpi_level_risks"
    /\ ~ret.returned
    /\ ret' = [returned |-> TRUE,
               value |-> get_kpi_level_risks(args.kpi_name, args.causal_kpi_graph,
                                             args.min_risk, args.max_results)]
    /\ UNCHANGED args

\* helpers.find_cluster_of_kpi; cluster_members is a dict given as its items
\* in insertion order, each [cl, kpis]
find_cluster_of_kpi(kpi, cluster_members) ==
    LET Holds(i) == \E j \in 1..Len(cluster_members[i].kpis) : cluster_members[i].kpis[j] = kpi
    IN  IF \E i \in 1..Len(cluster_members) : Holds(i)
        THEN [is_none |-> FALSE,
              value |-> cluster_members[CHOOSE i \in 1..Len(cluster_members) :
                                          Holds(i) /\ \A h \in 1..(i - 1) : ~Holds(h)].cl]
        ELSE None

\* f"Cluster_{cl}" for the cluster numbers of the model
ClusterNames == << "Cluster_0", "Cluster_1", "Cluster_2" >>
ClusterName(cl) == ClusterNames[cl + 1]

Abs(x) == IF x < 0 THEN 0 - x ELSE x

\* the loop of get_at_risk_kpis (lines 101-111) over the items of
\* causal_graph[cluster_name]
RECURSIVE extend_risky_kpis(_, _, _, _)
extend_risky_kpis(items, risky_kpis, min_strength, max_kpis_per_cluster) ==
    IF items = << >> THEN risky_kpis
    ELSE LET info == Head(items)
         IN  IF Abs(info.strength) < min_strength
             THEN extend_risky_kpis(Tail(items), risky_kpis, min_strength, max_kpis_per_cluster)
             ELSE extend_risky_kpis(Tail(items),
                                    risky_kpis \o Slice(info.target_kpis, max_kpis_per_cluster),
                                    min_strength, max_kpis_per_cluster)

\* get_at_risk_kpis with "if not cl" for "if cl is None": cluster 0 counts as none
get_at_risk_kpis_falsy_cluster(kpi_name, cluster_members, causal_graph, min_strength, max_kpis_per_cluster) ==
    LET cl == find_cluster_of_kpi(kpi_name, cluster_members)
    IN  IF cl.is_none \/ cl.value = 0 THEN << >>
        ELSE IF ClusterName(cl.value) \notin DOMAIN causal_graph THEN << >>
        ELSE extend_risky_kpis(causal_graph[ClusterName(cl.value)], << >>, min_strength,
                               max_kpis_per_cluster)

\* helpers.get_at_risk_kpis; strengths are in hundredths
get_at_risk_kpis(kpi_name, cluster_members, causal_graph, min_strength, max_kpis_per_cluster) ==
    LET cl == find_cluster_of_kpi(kpi_name, cluster_members)
    IN  IF cl.is_none THEN << >>
        ELSE IF ClusterName(cl.value) \notin DOMAIN causal_graph THEN << >>
        ELSE extend_risky_kpis(causal_graph[ClusterName(cl.value)], << >>, min_strength,
                               max_kpis_per_cluster)

\* cluster_members.json: k2 is a member of two clusters
ClusterMembers ==
    << [cl |-> 0, kpis |-> << "k1", "k2" >>],
       [cl |-> 1, kpis |-> << "k2", "k3" >>],
       [cl |-> 2, kpis |-> << "k4" >>] >>

\* the i-th outgoing edge of a cluster points at the i-th of these clusters
EdgeClusters == << "Cluster_1", "Cluster_2", "Cluster_3", "Cluster_4" >>

EdgeInfos ==
    { [strength |-> st, target_kpis |-> t] :
        st \in { 0 - 20, 10, 15 }, t \in { << "t1", "t2", "t3" >>, << "t1" >> } }

\* causal_graph.json: Cluster_0 with every choice of edges, Cluster_1 with one
\* edge, no entry for Cluster_2
CausalGraphs ==
    { ("Cluster_0" :> [i \in 1..Len(infos) |->
                         [tgt_cluster |-> EdgeClusters[i], strength |-> infos[i].strength,
                          target_kpis |-> infos[i].target_kpis]])
      @@ ("Cluster_1" :> << [tgt_cluster |-> "Cluster_0", strength |-> 50,
                             target_kpis |-> << "k1", "k2" >>] >>) :
        infos \in SeqsUpTo(EdgeInfos, MaxEdges) }

AtRiskCalls ==
    { [fn |-> "get_at_risk_kpis", kpi_name |-> k, cluster_members |-> ClusterMembers,
       causal_graph |-> g, min_strength |-> 15, max_kpis_per_cluster |-> n] :
        k \in { "k1", "k2", "k3", "k4", "zz" }, g \in CausalGraphs, n \in { 0, 1, 2, 5 } }

AtRiskCall ==
    /\ args.fn = "get_at_risk_kpis"
    /\ ~ret.returned
    /\ ret' = [returned |-> TRUE,
               value |-> get_at_risk_kpis(args.kpi_name, args.cluster_members,
                                          args.causal_graph, args.min_strength,
                                          args.max_kpis_per_cluster)]
    /\ UNCHANGED args

\* one field of a record: its key, whether its value is a str, its value
Field(key, is_str, value) == [key |-> key, is_str |-> is_str, value |-> value]

\* items of a suggestion list: strings (one empty), records with a preferred
\* key, with two of them out of priority order, with a number under the first
\* one, with an empty string under the first one, with a string under another
\* key only, with no string at all, the empty record, and a number
SuggestionItems ==
    { Str("a"), Str(""),
      Dict(<< Field("metric", TRUE, "a") >>),
      Dict(<< Field("name", TRUE, "n"), Field("metric", TRUE, "m") >>),
      Dict(<< Field("metric", FALSE, "7"), Field("id", TRUE, "b") >>),
      Dict(<< Field("metric", TRUE, ""), Field("kpi", TRUE, "k") >>),
      Dict(<< Field("urgency", TRUE, "high") >>),
      Dict(<< Field("metric", FALSE, "7") >>),
      Dict(<< >>),
      [kind |-> "int", value |-> "7"] }

NormalizeCalls ==
    { [fn |-> "normalize_kpi_list", kpis |-> None] }
    \cup { [fn |-> "normalize_kpi_list", kpis |-> [is_none |-> FALSE, items |-> k]] :
             k \in SeqsUpTo(SuggestionItems, MaxKpis) }

\* normalize_kpi_list(kpis): None is falsy like the empty list (line 158)
NormalizeCall ==
    /\ args.fn = "normalize_kpi_list"
    /\ ~ret.returned
    /\ ret' = [returned |-> TRUE,
               value |-> IF args.kpis.is_none THEN << >>
                         ELSE normalize_kpi_list(args.kpis.items)]
    /\ UNCHANGED args

CallInit ==
    /\ \/ args \in AgentCalls
       \/ args \in MergeCalls
       \/ args \in SlugifyCalls
       \/ args \in KpiRiskCalls
       \/ args \in AtRiskCalls
       \/ args \in NormalizeCalls
    /\ ret = [returned |-> FALSE]
    /\ TriageIdle
    /\ PipelineIdle
    /\ ContextIdle

CallNext ==
    \/ (AgentNoData /\ UNCHANGED << triage_vars, pipeline_vars, context_vars >>)
    \/ (MergeCall /\ UNCHANGED << triage_vars, pipeline_vars, context_vars >>)
    \/ (SlugifyHelpers /\ UNCHANGED << triage_vars, pipeline_vars, context_vars >>)
    \/ (SlugifyPreAnalyzer /\ UNCHANGED << triage_vars, pipeline_vars, context_vars >>)
    \/ (SlugifyDomainConfig /\ UNCHANGED << triage_vars, pipeline_vars, context_vars >>)
    \/ (MakeAlias /\ UNCHANGED << triage_vars, pipeline_vars, context_vars >>)
    \/ (KpiRiskCall /\ UNCHANGED << triage_vars, pipeline_vars, context_vars >>)
    \/ (AtRiskCall /\ UNCHANGED << triage_vars, pipeline_vars, context_vars >>)
    \/ (NormalizeCall /\ UNCHANGED << triage_vars, pipeline_vars, context_vars >>)

CallSpec == CallInit /\ [][CallNext]_vars

-----------------------------------------------------------------------------
(***************************************************************************)
(* data/add_variables_context.py: one context sentence per description,    *)
(* generated in batches by concurrent workers behind a semaphore.          *)
(***************************************************************************)

\* bounds of the explored inputs
MaxDescs == 2
MaxChunk == 2
MaxConc == 2
MaxRetries == 2

\* gen_batch(..., max_retries=4): process_all leaves the default in place
default_max_retries == 4

\* the descriptions are distinct, so that a misplaced context shows
DescriptionPool == << "d1", "d2", "d3", "d4", "d5" >>
DescriptionLists == { SubSeq(DescriptionPool, 1, n) : n \in 0..MaxDescs }

\* [seq[i : i + size] for i in range(0, len(seq), size)]: range raises ValueError on a
\* step of 0 and is empty on a negative one
chunked(seq, size) ==
    IF size = 0 THEN [raises |-> TRUE]
    ELSE IF size < 0 THEN [raises |-> FALSE, value |-> << >>]
    ELSE [raises |-> FALSE,
          value |-> [k \in 1..Ceil(Len(seq), size) |->
                        SubSeq(seq, (k - 1) * size + 1,
                               IF k * size < Len(seq) THEN k * size ELSE Len(seq))]]

\* str.splitlines(): the lines of s; the empty string has none
RECURSIVE splitlines(_)
splitlines(s) ==
    IF s = << >> THEN << >>
    ELSE LET brk == { i \in 1..Len(s) : s[i] = "\n" }
         IN  IF brk = { } THEN << s >>
             ELSE LET i == CHOOSE j \in brk : \A k \in brk : j <= k
                  IN  << SubSeq(s, 1, i - 1) >> \o splitlines(SubSeq(s, i + 1, Len(s)))

\* [str(x).splitlines()[0].strip(' "') for x in contexts]: IndexError when an entry
\* has no line
normalize_contexts(contexts) ==
    IF \E i \in 1..Len(contexts) : splitlines(contexts[i]) = << >>
    THEN [raises |-> TRUE]
    ELSE [raises |-> FALSE,
          value |-> [i \in 1..Len(contexts) |->
                        strip(splitlines(contexts[i])[1], { " ", "\"" })]]

\* the sentence the model writes for description d, as a string of symbols
Sentence(d) == << d >>
\* the same sentence quoted, padded and followed by a second line
Decorated(d) == << " ", "\"", d, "\"", " ", "\n", "x" >>

\* what the "contexts" of a parsed object may be: a list of strings, a value with a
\* length that is no list (a string), a value without a length (null, a number)
ContextsValues(batch) ==
    LET n == Len(batch)
        plain == [i \in 1..n |-> Sentence(batch[i])]
        decorated == [i \in 1..n |-> Decorated(batch[i])]
        lists == { plain, decorated, Append(plain, << "x" >>) }
                   \cup (IF n = 0 THEN { }
                         ELSE { SubSeq(plain, 1, n - 1), [plain EXCEPT ![1] = << >>] })
    IN  { [type |-> "list", items |-> l] : l \in lists }
            \cup { [type |-> "str", len |-> n], [type |-> "null"] }

\* what one chat completion may come to: the call raises, or it has a content; the
\* content is blank, text without braces, braces around broken JSON, JSON that is no
\* object, or an object (one without "contexts" reads as one with an empty list)
Responses(batch) ==
    { [kind |-> "error"] }
        \cup { [kind |-> "completion", content |-> [class |-> c]] :
                 c \in { "blank", "no_braces", "broken_json", "json_value" } }
        \cup { [kind |-> "completion", content |-> [class |-> "json_object", contexts |-> v]] :
                 v \in ContextsValues(batch) }

Failure(err) == [ok |-> FALSE, err |-> err]

\* extract_json_object: the parsed value, or the exception it raises
extract_json_object(content) ==
    CASE content.class = "blank" -> [raises |-> TRUE, err |-> "Empty completion content."]
      [] content.class = "no_braces" -> [raises |-> TRUE, err |-> "No JSON object found"]
      [] content.class = "broken_json" -> [raises |-> TRUE, err |-> "JSONDecodeError"]
      [] content.class = "json_value" -> [raises |-> FALSE, is_dict |-> FALSE]
      [] content.class = "json_object" ->
             [raises |-> FALSE, is_dict |-> TRUE, contexts |-> content.contexts]

\* one pass of the try block of gen_batch: the normalized contexts, or the exception
\* that the except clause catches. data.get of a value that is no dict raises
\* AttributeError; the message of the "Wrong shape" error takes len(contexts), which
\* raises TypeError when contexts has none
attempt_outcome(batch, r) ==
    IF r.kind = "error" THEN Failure("OpenAIError")
    ELSE LET parsed == extract_json_object(r.content)
         IN  IF parsed.raises THEN Failure(parsed.err)
             ELSE IF ~parsed.is_dict THEN Failure("AttributeError")
             ELSE IF parsed.contexts.type = "null" THEN Failure("TypeError")
             ELSE IF parsed.contexts.type # "list" THEN Failure("Wrong shape")
             ELSE IF Len(parsed.contexts.items) # Len(batch) THEN Failure("Wrong shape")
             ELSE LET normalized == normalize_contexts(parsed.contexts.items)
                  IN  IF normalized.raises THEN Failure("list index out of range")
                      ELSE [ok |-> TRUE, value |-> normalized.value]

\* [f"[Context generation failed: {last_err}]" for _ in batch]
failure_placeholders(batch, last_err) ==
    [i \in 1..Len(batch) |-> << "[Context generation failed: ", last_err, "]" >>]

\* a worker that appended its list instead of writing its own slot
store_result_in_completion_order(slots, index, done, value) ==
    [slots EXCEPT ![Len(done) + 1] = [is_none |-> FALSE, items |-> value]]

\* results[idx] = await gen_batch(...)
store_result(slots, index, done, value) ==
    [slots EXCEPT ![index] = [is_none |-> FALSE, items |-> value]]

\* [item for sub in results for item in sub]
RECURSIVE flatten(_)
flatten(subs) == IF subs = << >> THEN << >> ELSE Head(subs).items \o flatten(Tail(subs))

NewWorker == [st |-> "waiting", attempt |-> 0, last_err |-> "None", runs |-> 0]

ContextInit ==
    /\ descriptions \in DescriptionLists
    /\ \/ /\ ctx_entry = "process_all"
          /\ chunk_size \in -1..MaxChunk
          /\ concurrency \in -1..MaxConc
          /\ max_retries = default_max_retries
          /\ pa_pc = "start"
          /\ batches = << >>
          /\ worker = << >>
          /\ returned_by = << >>
       \/ /\ ctx_entry = "gen_batch"
          /\ chunk_size = 0
          /\ concurrency = 0
          /\ max_retries \in 0..MaxRetries
          /\ pa_pc = "direct"
          /\ batches = << descriptions >>
          /\ worker = << [NewWorker EXCEPT !.st = "running", !.attempt = 1, !.runs = 1] >>
          /\ returned_by = << None >>
    /\ batch_results = << >>
    /\ semaphore = 0
    /\ completed = << >>
    /\ flat = [returned |-> FALSE]
    /\ TriageIdle
    /\ PipelineIdle
    /\ CallIdle

\* process_all up to the gather: chunked raises on a chunk size of 0 and
\* asyncio.Semaphore on a negative value; otherwise one worker per batch is created
ProcessAllStart ==
    /\ pa_pc = "start"
    /\ LET c == chunked(descriptions, chunk_size)
       IN  IF c.raises
           THEN /\ pa_pc' = "raised"
                /\ UNCHANGED << batches, batch_results, semaphore, worker, returned_by >>
           ELSE /\ batches' = c.value
                /\ IF concurrency < 0
                   THEN /\ pa_pc' = "raised"
                        /\ UNCHANGED << batch_results, semaphore, worker, returned_by >>
                   ELSE /\ pa_pc' = "gather"
                        /\ semaphore' = concurrency
                        /\ batch_results' = [b \in 1..Len(c.value) |-> None]
                        /\ returned_by' = [b \in 1..Len(c.value) |-> None]
                        /\ worker' = [b \in 1..Len(c.value) |-> NewWorker]
    /\ UNCHANGED << ctx_entry, descriptions, chunk_size, concurrency, max_retries,
                    completed, flat >>

\* a worker that enters without taking a permit
WorkerAcquire_NoPermit(b) ==
    /\ pa_pc = "gather"
    /\ worker[b].st = "waiting"
    /\ worker' = [worker EXCEPT ![b].st = "running", ![b].attempt = 1, ![b].runs = @ + 1]
    /\ UNCHANGED << ctx_entry, descriptions, chunk_size, concurrency, max_retries, pa_pc,
                    batches, batch_results, semaphore, returned_by, completed, flat >>

\* async with semaphore: the waiters are served in the order of their arrival, which
\* is the order of the batches; the worker then calls gen_batch
WorkerAcquire(b) ==
    /\ pa_pc = "gather"
    /\ worker[b].st = "waiting"
    /\ \A a \in 1..(b - 1) : worker[a].st # "waiting"
    /\ semaphore > 0
    /\ semaphore' = semaphore - 1
    /\ worker' = [worker EXCEPT ![b].st = "running", ![b].attempt = 1, ![b].runs = @ + 1]
    /\ UNCHANGED << ctx_entry, descriptions, chunk_size, concurrency, max_retries, pa_pc,
                    batches, batch_results, returned_by, completed, flat >>

\* gen_batch returns value; in process_all the worker writes it to its slot and
\* leaves the semaphore
Return(b, value) ==
    /\ worker' = [worker EXCEPT ![b] = [NewWorker EXCEPT !.st = "done", !.runs = worker[b].runs]]
    /\ returned_by' = [returned_by EXCEPT ![b] = [is_none |-> FALSE, items |-> value]]
    /\ completed' = Append(completed, b)
    /\ IF ctx_entry = "process_all"
       THEN /\ batch_results' = store_result(batch_results, b, completed, value)
            /\ semaphore' = semaphore + 1
       ELSE UNCHANGED << batch_results, semaphore >>
    /\ UNCHANGED << ctx_entry, descriptions, chunk_size, concurrency, max_retries, pa_pc,
                    batches, flat >>

Attempting(b) ==
    /\ pa_pc \in { "gather", "direct" }
    /\ worker[b].st = "running"
    /\ worker[b].attempt <= max_retries

\* an attempt of gen_batch whose try block reaches its return
GenBatchOk(b) ==
    /\ Attempting(b)
    /\ \E r \in Responses(batches[b]) :
          LET o == attempt_outcome(batches[b], r)
          IN  o.ok /\ Return(b, o.value)

\* an attempt of gen_batch that ends in the except clause: the error is kept and,
\* after the backoff sleep, the loop goes on
GenBatchFail(b) ==
    /\ Attempting(b)
    /\ \E r \in Responses(batches[b]) :
          LET o == attempt_outcome(batches[b], r)
          IN  /\ ~o.ok
              /\ worker' = [worker EXCEPT ![b].attempt = @ + 1, ![b].last_err = o.err]
    /\ UNCHANGED << ctx_entry, descriptions, chunk_size, concurrency, max_retries, pa_pc,
                    batches, batch_results, semaphore, returned_by, completed, flat >>

\* the loop of gen_batch is exhausted: one placeholder per entry of the batch
GenBatchGiveUp(b) ==
    /\ pa_pc \in { "gather", "direct" }
    /\ worker[b].st = "running"
    /\ worker[b].attempt > max_retries
    /\ Return(b, failure_placeholders(batches[b], worker[b].last_err))

\* the gather is over: the slots are flattened in batch order
ProcessAllReturn ==
    /\ pa_pc = "gather"
    /\ \A b \in DOMAIN worker : worker[b].st = "done"
    /\ pa_pc' = "returned"
    /\ flat' = [returned |-> TRUE, items |-> flatten(batch_results)]
    /\ UNCHANGED << ctx_entry, descriptions, chunk_size, concurrency, max_retries,
                    batches, batch_results, semaphore, worker, returned_by, completed >>

ContextNext ==
    \/ (ProcessAllStart /\ UNCHANGED << triage_vars, pipeline_vars, call_vars >>)
    \/ (\E b \in DOMAIN worker : WorkerAcquire(b)
            /\ UNCHANGED << triage_vars, pipeline_vars, call_vars >>)
    \/ (\E b \in DOMAIN worker : GenBatchOk(b)
            /\ UNCHANGED << triage_vars, pipeline_vars, call_vars >>)
    \/ (\E b \in DOMAIN worker : GenBatchFail(b)
            /\ UNCHANGED << triage_vars, pipeline_vars, call_vars >>)
    \/ (\E b \in DOMAIN worker : GenBatchGiveUp(b)
            /\ UNCHANGED << triage_vars, pipeline_vars, call_vars >>)
    \/ (ProcessAllReturn /\ UNCHANGED << triage_vars, pipeline_vars, call_vars >>)

ContextSpec == ContextInit /\ [][ContextNext]_vars

\* the event loop runs a task that can run: some enabled step is eventually taken
ContextFairSpec == ContextSpec /\ WF_vars(ContextNext)

-----------------------------------------------------------------------------
(* Properties of the orchestration (Spec) *)

ScheduledDomains == { tasks[i].domain : i \in 1..Len(tasks) }

RecognizedDomains == { CanonicalDomains[i] : i \in 1..Len(CanonicalDomains) }

\* C1 as the specification states it: a task is scheduled only for a domain
\* whose list in domains_to_investigate is non-empty (an empty list is skipped).
C1_EmptyListSkipped ==
    scheduled =>
        \A i \in 1..Len(tasks) :
            DomainsToInvestigate(pre_summary.value)[tasks[i].domain] # << >>

\* What the code schedules instead: exactly the recognized domains whose key
\* is present in domains_to_investigate, whether the list is empty or not, one
\* task each, in the canonical order.
C1_ScheduledIffKeyPresent ==
    scheduled =>
        /\ ScheduledDomains =
               RecognizedDomains \cap DOMAIN DomainsToInvestigate(pre_summary.value)
        /\ \A i, j \in 1..Len(tasks) :
               i < j => \E a, b \in 1..Len(CanonicalDomains) :
                            /\ a < b
                            /\ CanonicalDomains[a] = tasks[i].domain
                            /\ CanonicalDomains[b] = tasks[j].domain

\* the scenario of the specification: Fertility with one KPI, Health with none,
\* and both tasks scheduled
C1_Witness ==
    /\ scheduled
    /\ pre_summary.value.has_d2i
    /\ DOMAIN pre_summary.value.domains_to_investigate = { "Fertility", "Health" }
    /\ pre_summary.value.domains_to_investigate["Health"] = << >>
    /\ pre_summary.value.domains_to_investigate["Fertility"] # << >>
    /\ ScheduledDomains = { "Fertility", "Health" }

\* C2: after the join, when every agent returned a data or a no-data result, the
\* domains mapping has exactly one entry per scheduled task, under its own name.
C2_OneKeyPerTask ==
    (domains.built /\ \A i \in 1..Len(tasks) : GatherResults[i].has_domain) =>
        DOMAIN domains.map = ScheduledDomains

\* C3: the phase only moves one step along PRE_ANALYSIS, FAN_OUT, AGGREGATE,
\* DONE (or to the failure of the run); FAN_OUT is entered with the pre-analysis
\* result stored, AGGREGATE with every task joined, nothing follows DONE, and after
\* a failure only the agents' threads still running come to their end.
PhaseOrder == << "PRE_ANALYSIS", "FAN_OUT", "AGGREGATE", "DONE" >>

PhaseStep ==
    /\ phase' # phase =>
           \/ phase' = "FAILED" /\ phase \in { "PRE_ANALYSIS", "FAN_OUT", "AGGREGATE" }
           \/ \E i \in 1..3 : phase = PhaseOrder[i] /\ phase' = PhaseOrder[i + 1]
    /\ phase' = "FAN_OUT" => pre_summary'.stored
    /\ phase' = "AGGREGATE" => scheduled' /\ AllReturned'
    /\ phase = "DONE" => UNCHANGED vars
    /\ phase = "FAILED" =>
           UNCHANGED << entry, phase, pre_summary, scheduled, tasks, domains, synth_calls,
                        render, report >>

C3_StrictPhaseOrder == [][PhaseStep]_vars

C3_Witness == phase = "DONE" /\ Len(tasks) = 2 /\ report.returned

\* C4: once a scheduled task has raised, the run never aggregates: no domains
\* mapping is built, the synthesis is not called and no report is returned.
C4_FailFastJoin ==
    (scheduled /\ SomeRaised) =>
        /\ phase \in { "FAN_OUT", "FAILED" }
        /\ ~domains.built
        /\ synth_calls = 0
        /\ ~report.returned

\* a run that failed although another task had returned its result
C4_Witness ==
    /\ phase = "FAILED"
    /\ SomeRaised
    /\ \E i \in 1..Len(tasks) : task_state[tasks[i].domain].state = "returned"

-----------------------------------------------------------------------------
(* Properties of run_pre_analysis (TriageSpec) *)

RECURSIVE ConcatChunks(_)
ConcatChunks(cs) ==
    IF cs = << >> THEN << >> ELSE Head(cs).selected_kpis \o ConcatChunks(Tail(cs))

\* every summarization call has been answered
FetchDone == pc = "fetched" \/ llm_calls > 0

\* C5: after the fetch, the calls number ceil(n / 4), or one call without
\* selected_kpis when n = 0; every chunk but the last has 4 codes, the last has
\* 1 to 4, and the chunks concatenated in call order are the code list.
C5_BatchCompleteness ==
    FetchDone =>
        LET n == Len(kpi_codes)
        IN  /\ n = 0 => Len(calls) = 1 /\ ~calls[1].has_selected
            /\ n > 0 =>
                 /\ (Len(calls) - 1) * batch_size < n
                 /\ n <= Len(calls) * batch_size
                 /\ \A i \in 1..Len(calls) :
                        /\ calls[i].has_selected
                        /\ Len(calls[i].selected_kpis) \in 1..batch_size
                        /\ i < Len(calls) => Len(calls[i].selected_kpis) = batch_size
            /\ ConcatChunks(calls) = kpi_codes

\* six codes fetched in a full and a short chunk
C5_Witness ==
    /\ pc = "fetched"
    /\ Len(kpi_codes) = 6
    /\ Len(calls) = 2
    /\ Len(calls[2].selected_kpis) = 2

\* the float x is within k units in its last place of the real num / den:
\* (m - k) * den <= num * 2^(-e) <= (m + k) * den, for x.e < 0
WithinUlps(x, k, num, den) ==
    LET target == ShiftLeft(ToNat(num), 0 - x.e)
        scaled == NatMul(x.m, den)
    IN  /\ ~NatLess(NatAdd(target, ToNat(k * den)), scaled)
        /\ ~NatLess(NatAdd(scaled, ToNat(k * den)), target)

\* the values delivered so far never decrease
ProgressNonDecreasing ==
    \A i \in 1..(Len(events) - 1) : Leq(events[i], events[i + 1])

\* the value delivered after each completed batch i (1-based) of T is
\* 0.02 + 0.20 * i / T = (2T + 20i) / (100T), to the rounding of the three float
\* operations
PerBatchValues ==
    (progress_callback # "none" /\ kpi_codes # << >>) =>
        \A i \in 1..idx :
            WithinUlps(events[i + 1], 2, 2 * total_batches + 20 * i, 100 * total_batches)

\* C6 as the specification states it: the delivered progress values never
\* decrease, the value after batch i of T is low + span * (i + 1) / T, and the
\* last per-batch value equals low + span, the float 0.02 + 0.20.
C6_LastEqualsBound ==
    /\ ProgressNonDecreasing
    /\ PerBatchValues
    /\ (progress_callback # "none" /\ kpi_codes # << >> /\ FetchDone) =>
           /\ idx = total_batches
           /\ events[idx + 1] = fadd(float_0_02, float_0_20)

\* x is y or one of the two floats next to y (y is no power of two)
AtMostOneUlpApart(x, y) ==
    /\ x.e = y.e
    /\ \/ x.m = y.m
       \/ NatAdd(x.m, << 1 >>) = y.m
       \/ NatAdd(y.m, << 1 >>) = x.m

\* C6 as the code has it: the delivered progress values never decrease, the
\* value after batch i of T is low + span * (i + 1) / T to within two units in
\* the last place, and the last per-batch value is the float low + span or one of
\* its two neighbours, above or below it, and not above the 0.25 that follows.
C6_ProgressMonotone ==
    /\ ProgressNonDecreasing
    /\ PerBatchValues
    /\ (progress_callback # "none" /\ kpi_codes # << >> /\ FetchDone) =>
           /\ idx = total_batches
           /\ AtMostOneUlpApart(events[idx + 1], fadd(float_0_02, float_0_20))
           /\ Leq(events[idx + 1], float_0_25)

\* a run of 43 batches that returned, whose last per-batch value is below the
\* float 0.02 + 0.20
C6_Witness ==
    /\ pc = "returned"
    /\ progress_callback = "given"
    /\ idx = 43
    /\ Len(events) = 48
    /\ events[44] # fadd(float_0_02, float_0_20)
    /\ Leq(events[44], fadd(float_0_02, float_0_20))

\* a run of three batches that returned, whose last per-batch value is above the
\* float 0.02 + 0.20
LastValueAboveBound ==
    /\ pc = "returned"
    /\ progress_callback = "given"
    /\ idx = 3
    /\ Len(events) = 8
    /\ events[4] # fadd(float_0_02, float_0_20)
    /\ Leq(fadd(float_0_02, float_0_20), events[4])

\* C7: when the whitelist is a set (not None), the summaries handed to the
\* classification have no key outside it, the empty set included.
C7_WhitelistFilter ==
    (summaries_dict.built /\ ~alias_whitelist.is_none) =>
        (DOMAIN summaries_dict.entries) \subseteq alias_whitelist.aliases

\* the selection has been resolved and no call has been issued yet
Resolved == pc \in { "batch", "single" } /\ calls = << >>

RegistryAliases == { CORE_TRIAGE_KPIS[i].alias : i \in RegistryIndex }
RegistryCodes == { CORE_TRIAGE_KPIS[i].code : i \in RegistryIndex }

\* the alias a token resolves to, trying alias, code, slug in this order on the
\* stripped token; "" when it matches none
TokenAlias(item) ==
    LET t == Join(strip(item, Whitespace))
        s == Join(_slugify(strip(item, Whitespace)))
    IN  IF t \in RegistryAliases THEN t
        ELSE IF t \in RegistryCodes
        THEN CORE_TRIAGE_KPIS[CHOOSE i \in RegistryIndex : CORE_TRIAGE_KPIS[i].code = t].alias
        ELSE IF s \in RegistryAliases THEN s
        ELSE ""

\* TokenAlias on the tokens of the model, computed once
AliasOfToken == [t \in Tokens |-> TokenAlias(t)]

\* the code list expected for the non-empty tokens, an unmatched token
\* passed through as written (verbatim) or stripped
ExpectedCodes(items, verbatim) ==
    LET tokens == SelectSeq(items, LAMBDA it : it # << >>)
    IN  [i \in 1..Len(tokens) |->
            IF AliasOfToken[tokens[i]] # ""
            THEN CORE_TRIAGE_KPIS[CHOOSE j \in RegistryIndex :
                     CORE_TRIAGE_KPIS[j].alias = AliasOfToken[tokens[i]]].code
            ELSE IF verbatim THEN Join(tokens[i])
            ELSE Join(strip(tokens[i], Whitespace))]

ExpectedWhitelist(items) ==
    LET tokens == { items[i] : i \in 1..Len(items) } \ { << >> }
    IN  IF \E t \in tokens : AliasOfToken[t] = "" THEN None
        ELSE [is_none |-> FALSE, aliases |-> { AliasOfToken[t] : t \in tokens }]

\* C8 as the specification states it: tokens resolve by alias, code, slug; an
\* unmatched token is appended verbatim and makes the whitelist None; otherwise
\* the whitelist is the set of matched aliases; the codes follow the tokens.
C8_UnmatchedVerbatim ==
    (Resolved /\ ~triage_kpis.is_none /\ triage_kpis.items # << >>) =>
        /\ kpi_codes = ExpectedCodes(triage_kpis.items, TRUE)
        /\ alias_whitelist = ExpectedWhitelist(triage_kpis.items)

\* C8 as the code has it: empty tokens are skipped, the others are stripped of
\* surrounding whitespace before they are matched, and an unmatched token is
\* appended in its stripped form.
C8_UnmatchedStripped ==
    (Resolved /\ ~triage_kpis.is_none /\ triage_kpis.items # << >>) =>
        /\ kpi_codes = ExpectedCodes(triage_kpis.items, FALSE)
        /\ alias_whitelist = ExpectedWhitelist(triage_kpis.items)

\* an unknown token with a leading blank, a code with a leading blank and a
\* display name, resolved in this order
C8_Witness ==
    /\ Resolved
    /\ ~triage_kpis.is_none
    /\ Len(triage_kpis.items) = 3
    /\ kpi_codes = << "xyz", "228d", "79" >>
    /\ alias_whitelist.is_none

\* C9: an empty or null selection resolves to every code of the registry, in
\* registry order, with the whitelist of every alias.
C9_EmptySelectsAll ==
    (Resolved /\ (triage_kpis.is_none \/ triage_kpis.items = << >>)) =>
        /\ Len(kpi_codes) = Len(CORE_TRIAGE_KPIS)
        /\ \A i \in RegistryIndex : kpi_codes[i] = CORE_TRIAGE_KPIS[i].code
        /\ ~alias_whitelist.is_none
        /\ alias_whitelist.aliases = RegistryAliases

\* the empty list resolved
C9_Witness ==
    /\ Resolved
    /\ ~triage_kpis.is_none
    /\ triage_kpis.items = << >>
    /\ Len(kpi_codes) = 33

\* C10: a failed summarization call ends run_pre_analysis: it is the last call
\* (no retry, no further batch), nothing is assembled or filtered, the
\* classification is not called and nothing is returned.
C10_FailureIsFatal ==
    failed_calls > 0 =>
        /\ pc = "raised"
        /\ failed_calls = 1
        /\ Len(calls) = idx + 1
        /\ data.is_none
        /\ ~summaries_dict.built
        /\ llm_calls = 0
        /\ ~result.returned

\* the second batch failed after the first one had been merged
C10_Witness ==
    /\ pc = "raised"
    /\ failed_calls = 1
    /\ idx = 1
    /\ combined # EmptyDict

\* the calls of the callback that raised so far
CallbackErrors == { n \in 1..Len(events) : callback_raises(n) }

\* C11: what the progress callback raises never aborts run_pre_analysis: the
\* run ends in an exception only after a failed summarization or classification
\* call, every later notification is still attempted, and the calls issued and
\* the result returned are those of a run whose callback never raises.
C11_CallbackNeverAborts ==
    CallbackErrors # { } =>
        /\ pc = "raised" => failed_calls = 1 \/ llm_calls = 1
        /\ pc \in { "batch", "single" } => Len(events) = 1 + idx
        /\ FetchDone =>
               /\ ConcatChunks(calls) = kpi_codes
               /\ Len(calls) = IF kpi_codes = << >> THEN 1 ELSE total_batches
        /\ pc = "classifying" => Len(events) = idx + 4
        /\ pc = "returned" =>
               /\ result.returned
               /\ result.value \in ClassifierAnswers
               /\ Len(events) = idx + 5

\* a run of two batches that returned although the callback raised at its
\* first, third, fifth and seventh call
C11_Witness ==
    /\ pc = "returned"
    /\ progress_callback = "raises_odd"
    /\ CallbackErrors = { 1, 3, 5, 7 }
    /\ Len(calls) = 2
    /\ result.returned

-----------------------------------------------------------------------------
(* Rendering and the returned report (Spec) *)

\* the report the synthesis step built, before the rendering step
BuiltReport ==
    with_final_summary(combined_report(pre_summary.value, domains.map), "overall")

\* C12: a renderer that raises never fails the run: the caller of either entry
\* point still receives the combined report, unchanged.
C12_RenderFailureIsolated ==
    render = "failed" =>
        /\ phase = "DONE"
        /\ report.returned
        /\ report.combined = BuiltReport

ReportKeys == { "farm_code", "overview", "domains", "urgent_kpis", "final_summary" }

\* C13: a run that returns normally yields a report with the keys farm_code,
\* overview, domains, urgent_kpis and final_summary, also when no domain was
\* scheduled or every domain had no data.
C13_FullyPopulatedReport ==
    report.returned =>
        /\ ReportKeys \subseteq DOMAIN report.combined
        /\ render # "saved" => DOMAIN report.combined = ReportKeys
        /\ report.combined["domains"] = domains.map
        /\ report.combined["final_summary"] = "overall"

\* a graph run that returned although the pre-analysis named no domain and gave
\* no summary
C13_Witness ==
    /\ report.returned
    /\ entry = "graph"
    /\ tasks = << >>
    /\ ~pre_summary.value.has_summary
    /\ report.combined["domains"] = EmptyDict
    /\ report.combined["overview"] = ""

-----------------------------------------------------------------------------
(* C14 *)

NoDataReturned == args.fn = "agent" /\ ret.returned

NoDuplicates(seq) == \A i, j \in 1..Len(seq) : seq[i] = seq[j] => i = j

EmptyRecommendations ==
    [Immediate |-> << >>, Short |-> << >>, Medium |-> << >>, Long |-> << >>]

\* C14 as stated: with zero rows every per-domain agent returns issues = [],
\* four empty recommendation lists and kpis_to_plot equal to the requested
\* aliases unchanged (same elements, same order, nothing added)
C14_RequestUnchanged ==
    NoDataReturned =>
        /\ ret.value.issues = << >>
        /\ ret.value.recommendations = EmptyRecommendations
        /\ ret.value.kpis_to_plot = args.kpis

\* C14 amended: with zero rows every per-domain agent returns issues = [] and
\* four empty recommendation lists; the culling agent returns the requested
\* list as kpis_to_plot, the other four return a duplicate-free list that starts
\* with the normalized request (one string per item, first occurrences only)
\* and continues with exactly the defaults of the domain that were not requested
C14_RequestThenDefaults ==
    NoDataReturned =>
        LET plotted == ret.value.kpis_to_plot
            requested == Strs(normalize_kpi_list(args.kpis))
            defaults == Strs(get_domain_kpi_aliases(args.domain))
        IN  /\ ret.value.issues = << >>
            /\ ret.value.recommendations = EmptyRecommendations
            /\ IF args.domain = "Culling" THEN plotted = args.kpis
               ELSE /\ NoDuplicates(plotted)
                    /\ Len(plotted) >= Len(requested)
                    /\ SubSeq(plotted, 1, Len(requested)) = requested
                    /\ \A i \in (Len(requested) + 1)..Len(plotted) :
                         \E j \in 1..Len(defaults) : plotted[i] = defaults[j]
                    /\ \A j \in 1..Len(defaults) :
                         \E i \in 1..Len(plotted) : plotted[i] = defaults[j]

\* a Fertility agent asked for one KPI that is no default answers with three
C14_Witness ==
    /\ NoDataReturned
    /\ args.domain = "Fertility"
    /\ args.kpis = << Str("kpi_x") >>
    /\ Len(ret.value.kpis_to_plot) = 3

-----------------------------------------------------------------------------
(* C15 *)

MergeReturned == args.fn = "build_domain_kpi_list" /\ ret.returned

\* a list of distinct non-empty aliases
DistinctAliases(p) ==
    /\ \A i \in 1..Len(p) : p[i].kind = "str" /\ p[i].value # ""
    /\ NoDuplicates(p)

\* C15: for a prioritized list p of distinct non-empty aliases,
\* build_domain_kpi_list(d, p) is p in its order, then the defaults of d that
\* are not in p in their configured order, and has no duplicates; for a domain
\* without defaults the result is p
C15_MergeOrder ==
    (MergeReturned /\ DistinctAliases(args.prioritized)) =>
        LET p == args.prioritized
            defaults == Strs(get_domain_kpi_aliases(args.domain))
            Absent(a) == \A i \in 1..Len(p) : p[i] # a
        IN  /\ ret.value = p \o SelectSeq(defaults, Absent)
            /\ NoDuplicates(ret.value)
            /\ defaults = << >> => ret.value = p

\* a default asked for first keeps its place and the other default follows
C15_Witness ==
    /\ MergeReturned
    /\ args.domain = "Fertility"
    /\ args.prioritized = << Str("taza_prenez_21_dias"), Str("kpi_x") >>
    /\ ret.value = << Str("taza_prenez_21_dias"), Str("kpi_x"), Str("pct_partos_logrados") >>

-----------------------------------------------------------------------------
(* C16 *)

SlugReturned == args.fn = "slugify" /\ ret.returned

Handled(text) == \A i \in 1..Len(text) : text[i] \in HandledAlphabet

\* the implementation that produced ret, applied to a text
SameSlugify(text) ==
    CASE ret.impl = "helpers._slugify" -> helpers_slugify(text)
      [] ret.impl = "pre_analyzer_agent._slugify" -> _slugify(text)
      [] ret.impl = "domain_config._slugify" -> domain_config_slugify(text)
      [] ret.impl = "DairyKPIClient._make_alias" -> _make_alias(text)

\* C16: for every string s over the handled alphabet, slugify(slugify(s)) =
\* slugify(s), for each of helpers._slugify, domain_config._slugify and
\* pre_analyzer_agent._slugify
C16_SlugifyIdempotent ==
    (SlugReturned /\ Handled(args.text) /\ ret.impl # "DairyKPIClient._make_alias") =>
        SameSlugify(ret.value) = ret.value

\* a text whose slug differs from it: replaced, deleted and collapsed characters
C16_Witness ==
    /\ SlugReturned
    /\ ret.impl = "helpers._slugify"
    /\ args.text = << "%", "(", "/" >>
    /\ ret.value = << "p", "c", "t" >>

-----------------------------------------------------------------------------
(* C17 *)

\* C17: helpers._slugify, pre_analyzer_agent._slugify, domain_config._slugify
\* and DairyKPIClient._make_alias return the same alias for the same string,
\* accented letters and leading or trailing whitespace included
C17_OneNormalizationRule ==
    SlugReturned =>
        /\ ret.value = helpers_slugify(args.text)
        /\ ret.value = _slugify(args.text)
        /\ ret.value = domain_config_slugify(args.text)
        /\ ret.value = _make_alias(args.text)

-----------------------------------------------------------------------------
(* C18 *)

KpiRisksReturned == args.fn = "get_kpi_level_risks" /\ ret.returned

\* the edges of the KPI asked for
OutgoingEdges ==
    IF args.kpi_name \in DOMAIN args.causal_kpi_graph
    THEN args.causal_kpi_graph[args.kpi_name] ELSE << >>

\* C18: get_kpi_level_risks returns the targets of the outgoing edges whose
\* risk >= min_risk, by descending risk with edges of equal risk in input order,
\* cut to the first max_results; [] when the KPI has no outgoing edges
C18_KpiLevelRisks ==
    KpiRisksReturned =>
        LET edges == OutgoingEdges
            Kept == { i \in 1..Len(edges) : edges[i].risk >= args.min_risk }
            \* number of kept edges that come before edge i in the answer
            Ahead(i) == Cardinality({ j \in Kept :
                            \/ edges[j].risk > edges[i].risk
                            \/ edges[j].risk = edges[i].risk /\ j < i })
            size == IF Cardinality(Kept) < args.max_results
                    THEN Cardinality(Kept) ELSE args.max_results
        IN  /\ Len(ret.value) = size
            /\ \A i \in Kept : Ahead(i) < size => ret.value[Ahead(i) + 1] = edges[i].kpi
            /\ edges = << >> => ret.value = << >>

\* the example of the claim: risks 0.9, 0.2, 0.05 with min_risk 0.1 give [A, B]
C18_Example ==
    /\ KpiRisksReturned
    /\ args.kpi_name = "X"
    /\ args.causal_kpi_graph["X"] = << [kpi |-> "A", risk |-> 90], [kpi |-> "B", risk |-> 20],
                                       [kpi |-> "C", risk |-> 5] >>
    /\ args.min_risk = 10
    /\ args.max_results = 10
    /\ ret.value = << "A", "B" >>

-----------------------------------------------------------------------------
(* C19 *)

AtRiskReturned == args.fn = "get_at_risk_kpis" /\ ret.returned

\* the clusters that hold the KPI asked for, as positions in load order
ClustersOfKpi ==
    { i \in 1..Len(args.cluster_members) :
        \E j \in 1..Len(args.cluster_members[i].kpis) :
            args.cluster_members[i].kpis[j] = args.kpi_name }

\* the outgoing edges of the first cluster that holds the KPI
ClusterEdges ==
    LET first == CHOOSE i \in ClustersOfKpi : \A h \in ClustersOfKpi : i <= h
        name == ClusterName(args.cluster_members[first].cl)
    IN  IF name \in DOMAIN args.causal_graph THEN args.causal_graph[name] ELSE << >>

\* how many target KPIs edge i contributes
Contribution(i) ==
    LET info == ClusterEdges[i]
    IN  IF Abs(info.strength) >= args.min_strength
        THEN (IF Len(info.target_kpis) < args.max_kpis_per_cluster
              THEN Len(info.target_kpis) ELSE args.max_kpis_per_cluster)
        ELSE 0

\* how many target KPIs the first n edges contribute together
RECURSIVE Offset(_)
Offset(n) == IF n = 0 THEN 0 ELSE Offset(n - 1) + Contribution(n)

\* C19: get_at_risk_kpis returns [] for a KPI that is in no cluster; otherwise
\* it takes the first cluster in load order that holds the KPI and returns, for
\* each of its outgoing edges with abs(strength) >= min_strength in iteration
\* order, the first max_kpis_per_cluster target KPIs, concatenated, duplicates kept
C19_ClusterLevelAtRisk ==
    AtRiskReturned =>
        IF ClustersOfKpi = { } THEN ret.value = << >>
        ELSE /\ Len(ret.value) = Offset(Len(ClusterEdges))
             /\ \A i \in 1..Len(ClusterEdges) : \A j \in 1..Contribution(i) :
                  ret.value[Offset(i - 1) + j] = ClusterEdges[i].target_kpis[j]

\* a KPI of two clusters, answered from the first one, with t1 downstream of
\* two clusters and named twice
C19_Witness ==
    /\ AtRiskReturned
    /\ args.kpi_name = "k2"
    /\ Cardinality(ClustersOfKpi) = 2
    /\ args.max_kpis_per_cluster = 2
    /\ ret.value = << "t1", "t2", "t1" >>

-----------------------------------------------------------------------------
(* C20 *)

NormalizeReturned == args.fn = "normalize_kpi_list" /\ ret.returned

NormalizeInput == IF args.kpis.is_none THEN << >> ELSE args.kpis.items

\* the value of the first preferred key (metric, kpi, name, id) that holds a
\* string, "" if there is none
PreferredString(item) ==
    LET Keys == { p \in 1..Len(preferred_keys) :
                    \E e \in 1..Len(item.entries) :
                        item.entries[e].key = preferred_keys[p] /\ item.entries[e].is_str }
        p == CHOOSE q \in Keys : \A r \in Keys : q <= r
        e == CHOOSE f \in 1..Len(item.entries) : item.entries[f].key = preferred_keys[p]
    IN  IF Keys = { } THEN "" ELSE item.entries[e].value

\* the value of the first field of the record that holds a string, "" if none
FirstString(item) ==
    LET Fields == { e \in 1..Len(item.entries) : item.entries[e].is_str }
        e == CHOOSE f \in Fields : \A g \in Fields : f <= g
    IN  IF Fields = { } THEN "" ELSE item.entries[e].value

HasPreferredString(item) ==
    \E p \in 1..Len(preferred_keys), e \in 1..Len(item.entries) :
        item.entries[e].key = preferred_keys[p] /\ item.entries[e].is_str

\* the alias the claim takes from an item: a record without a string under the
\* preferred keys gives none
StatedAlias(item) ==
    IF item.kind = "str" THEN item.value
    ELSE IF item.kind = "dict" THEN PreferredString(item)
    ELSE ""

\* the alias the amended claim takes from an item: a record without a string
\* under the preferred keys gives its first string-valued field
AmendedAlias(item) ==
    IF item.kind = "str" THEN item.value
    ELSE IF item.kind = "dict"
    THEN (IF HasPreferredString(item) THEN PreferredString(item) ELSE FirstString(item))
    ELSE ""

\* the result lists the non-empty aliases of the items once each, in the order
\* of their first occurrences
ListsAliases(out, items, Alias(_)) ==
    LET First(a) == CHOOSE i \in 1..Len(items) :
                        Alias(items[i]) = a /\ \A h \in 1..(i - 1) : Alias(items[h]) # a
    IN  /\ NoDuplicates(out)
        /\ \A i \in 1..Len(items) :
             Alias(items[i]) # "" => \E o \in 1..Len(out) : out[o] = Alias(items[i])
        /\ \A o \in 1..Len(out) :
             out[o] # "" /\ \E i \in 1..Len(items) : Alias(items[i]) = out[o]
        /\ \A o, q \in 1..Len(out) : o < q => First(out[o]) < First(out[q])

\* C20 as stated: normalize_kpi_list takes a string item itself and from a
\* record the first string among metric, kpi, name, id; a record with no string
\* under those fields is dropped; first-occurrence order, no duplicates; empty
\* or null input yields []
C20_PreferredFieldsOnly ==
    NormalizeReturned =>
        /\ ListsAliases(ret.value, NormalizeInput, StatedAlias)
        /\ NormalizeInput = << >> => ret.value = << >>

\* C20 amended: as stated, except that a record with no string under metric,
\* kpi, name, id gives the first string-valued field it has under any key and is
\* dropped only when it has none; an empty string is never an alias
C20_FirstStringFallback ==
    NormalizeReturned =>
        /\ ListsAliases(ret.value, NormalizeInput, AmendedAlias)
        /\ NormalizeInput = << >> => ret.value = << >>

\* a record that only holds a string under "urgency" gives that string
C20_Witness ==
    /\ NormalizeReturned
    /\ ~args.kpis.is_none
    /\ args.kpis.items = << Dict(<< Field("urgency", TRUE, "high") >>), Str("a") >>
    /\ ret.value = << "high", "a" >>

-----------------------------------------------------------------------------
(* C21 *)

\* the selection is resolved and names no code
EmptySelection == pc \notin { "idle", "start" } /\ kpi_codes = << >>

\* the fetch is over and the notifications that follow it have been made
PastFetch == summaries_dict.built

\* C21: with an empty resolved code list run_pre_analysis makes one
\* summarization call, without selected_kpis, and no batch iteration; the fetch
\* is announced by exactly one progress event, the 0.25 one that follows it
C21_SingleUnparameterizedCall ==
    EmptySelection =>
        /\ idx = 0
        /\ Len(calls) <= 1
        /\ \A i \in 1..Len(calls) : ~calls[i].has_selected
        /\ pc \in { "fetched", "classifying", "returned" } => Len(calls) = 1
        /\ (progress_callback # "none" /\ ~PastFetch) => events = << float_0_02 >>
        /\ (progress_callback # "none" /\ PastFetch) =>
             /\ SubSeq(events, 1, 3) = << float_0_02, float_0_25, float_0_4 >>
             /\ Cardinality({ i \in 1..Len(events) : events[i] = float_0_25 }) = 1

\* a run on an empty selection that returned after its single call
C21_Witness ==
    /\ EmptySelection
    /\ pc = "returned"
    /\ progress_callback = "given"
    /\ calls = << [has_selected |-> FALSE, selected_kpis |-> << >>] >>
    /\ Len(events) = 5

-----------------------------------------------------------------------------
(* C22 *)

\* C22: whatever the classification result, at most 5 tasks are scheduled, at
\* most one per domain and only for the five recognized domains; a key outside
\* them (Feeding) gets no task and no entry in the domains mapping
C22_RecognizedDomainsOnly ==
    /\ scheduled =>
         /\ Len(tasks) <= 5
         /\ \A i, j \in 1..Len(tasks) : tasks[i].domain = tasks[j].domain => i = j
         /\ ScheduledDomains \subseteq RecognizedDomains
         /\ DOMAIN task_state = ScheduledDomains
    /\ domains.built => DOMAIN domains.map \subseteq RecognizedDomains

\* a classification result that names all five domains and Feeding: five tasks,
\* joined, and no Feeding entry
C22_Witness ==
    /\ domains.built
    /\ "Feeding" \in DOMAIN DomainsToInvestigate(pre_summary.value)
    /\ Len(tasks) = 5
    /\ DOMAIN domains.map # { }
    /\ "Feeding" \notin DOMAIN domains.map

-----------------------------------------------------------------------------
(* C23 *)

\* the synthesis call is issued only after every scheduled task has completed
SynthesisAfterJoin == synth_calls > 0 => (scheduled /\ AllReturned /\ domains.built)

\* the joined mapping is a function of the results in task order, whatever the
\* order in which the tasks finished
JoinedInTaskOrder == domains.built => domains.map = DomainsDict(GatherResults)

\* C23: the synthesis call is issued only after every scheduled task has
\* completed, and the domains mapping handed to it holds the result of every
\* scheduled task (of every task whose result names a domain), one entry per
\* task, whatever the order in which the tasks finished
C23_JoinHoldsEveryResult ==
    /\ SynthesisAfterJoin
    /\ JoinedInTaskOrder
    /\ domains.built =>
         /\ \A i \in 1..Len(tasks) :
              GatherResults[i].has_domain =>
                  /\ GatherResults[i].domain \in DOMAIN domains.map
                  /\ domains.map[GatherResults[i].domain] = GatherResults[i]
         /\ Cardinality(DOMAIN domains.map) =
                Cardinality({ i \in 1..Len(tasks) : GatherResults[i].has_domain })

-----------------------------------------------------------------------------
(* C24 *)

\* the union of the keys of the summaries the answers so far carried
ReturnedKeys ==
    UNION { DOMAIN responses[i].summaries : i \in 1..Len(responses) }

\* C24: at most one summarization call is in flight; the calls of a batched
\* fetch are issued in index order, call i + 1 only after answer i has been
\* merged into the accumulator and its progress event delivered; after the last
\* batch the accumulated summaries hold every key any batch returned
C24_SequentialBatches ==
    /\ Len(in_flight) <= 1
    /\ (pc \notin { "idle", "start" } /\ kpi_codes # << >>) =>
         /\ \A i \in 1..Len(calls) :
              calls[i] = [has_selected |-> TRUE, selected_kpis |-> Chunk(kpi_codes, i - 1)]
         /\ Len(calls) = idx + Len(in_flight) + failed_calls
         /\ Len(responses) = idx
         /\ DOMAIN combined = ReturnedKeys
         /\ (progress_callback # "none" /\ pc = "batch") => Len(events) = 1 + idx
         /\ FetchDone => /\ idx = total_batches
                         /\ in_flight = << >>
                         /\ data.summaries = combined
                         /\ DOMAIN data.summaries = ReturnedKeys

\* the third call of a fetch in flight, two answers merged and notified
C24_Witness ==
    /\ pc = "batch"
    /\ Len(calls) = 3
    /\ Len(in_flight) = 1
    /\ idx = 2
    /\ progress_callback = "given"
    /\ Len(events) = 3
    /\ "otro_kpi" \in DOMAIN combined

-----------------------------------------------------------------------------
(* C25 *)

CodesOf(call) == { call.selected_kpis[i] : i \in 1..Len(call.selected_kpis) }

\* C25: the chunks sent to the summarization collaborator are pairwise
\* disjoint, whatever selection was requested: no code is sent in two batches,
\* so no later batch asks again for an entry an earlier batch has merged
C25_DisjointChunks ==
    \A i, j \in 1..Len(calls) :
        i < j =>
            /\ CodesOf(calls[i]) \cap CodesOf(calls[j]) = { }
            /\ (calls[i].has_selected /\ calls[j].has_selected) =>
                   ServiceKeys(calls[i]) \cap ServiceKeys(calls[j]) = { }

-----------------------------------------------------------------------------
(* C26 *)

\* the summaries of the answers merged one after the other, later answers
\* winning on a shared key
RECURSIVE Accumulated(_)
Accumulated(payloads) ==
    IF payloads = << >> THEN EmptyDict
    ELSE LET last == payloads[Len(payloads)]
             before == Accumulated(SubSeq(payloads, 1, Len(payloads) - 1))
         IN  [k \in (DOMAIN before) \cup (DOMAIN last.summaries) |->
                IF k \in DOMAIN last.summaries THEN last.summaries[k] ELSE before[k]]

BatchedFetch == pc \notin { "idle", "start" } /\ kpi_codes # << >>

\* C26: in a batched fetch the metadata fields of the merged result are those
\* of the first batch's answer, also when that answer carried none, and its
\* summaries field is the accumulated mapping of all batches
C26_TemplateFromFirstBatch ==
    BatchedFetch =>
        /\ responses = << >> => template.is_none
        /\ responses # << >> =>
             /\ ~template.is_none
             /\ template.fields = responses[1].meta
        /\ FetchDone =>
             /\ data.meta = responses[1].meta
             /\ data.has_summaries
             /\ data.summaries = Accumulated(responses)

\* a first batch without metadata fields followed by one with them: the merged
\* result has no metadata field
C26_Witness ==
    /\ BatchedFetch
    /\ FetchDone
    /\ Len(responses) = 2
    /\ responses[1].meta = EmptyDict
    /\ responses[2].meta # EmptyDict
    /\ data.meta = EmptyDict

-----------------------------------------------------------------------------
(* C27 *)

\* C27: for the same pre-analysis result and the same agent outputs the two
\* entry points schedule the same tasks with the same KPI scope, and either both
\* fail or both produce the same domains mapping: the tasks of a run are those
\* either entry point builds, and a join of tasks that all returned ends in the
\* mapping of run_master_summary
C27_EntryPointsEquivalent ==
    scheduled =>
        LET d2i == DomainsToInvestigate(pre_summary.value)
        IN  /\ tasks = BuildTasks("master", d2i, CanonicalDomains)
            /\ tasks = BuildTasks("graph", d2i, CanonicalDomains)
            /\ (AllReturned /\ phase # "FAN_OUT") =>
                   /\ domains.built
                   /\ domains.map = DomainsDict(GatherResults)

(* C28 *)
\* batch and position inside the batch of the i-th description
BatchOf(i) == ((i - 1) \div chunk_size) + 1
PlaceOf(i) == ((i - 1) % chunk_size) + 1

\* what gen_batch can give for description d: its sentence, normalized, or the failure
\* placeholder of its batch
IsContextFor(item, d) ==
    \/ item = Sentence(d)
    \/ Len(item) = 3 /\ item[1] = "[Context generation failed: "

\* C28: for a chunk size and a concurrency of at least 1, whatever the order in which
\* the workers complete, the list process_all returns is as long as the descriptions
\* and its i-th entry is what the gen_batch call of the i-th description's batch
\* returned at that description's place: the context of that description.
C28_AlignmentPreserved ==
    (ctx_entry = "process_all" /\ chunk_size >= 1 /\ concurrency >= 1 /\ flat.returned) =>
        /\ Len(flat.items) = Len(descriptions)
        /\ \A i \in 1..Len(descriptions) :
              /\ batches[BatchOf(i)][PlaceOf(i)] = descriptions[i]
              /\ flat.items[i] = returned_by[BatchOf(i)].items[PlaceOf(i)]
              /\ IsContextFor(flat.items[i], descriptions[i])

\* two batches, the second done before the first, a context and a placeholder returned
C28_Witness ==
    /\ ctx_entry = "process_all"
    /\ flat.returned
    /\ chunk_size >= 1
    /\ Len(batches) >= 2
    /\ Len(completed) >= 2 /\ completed[1] > completed[2]
    /\ \E i \in 1..Len(flat.items) : flat.items[i] = Sentence(descriptions[i])
    /\ \E i \in 1..Len(flat.items) : Len(flat.items[i]) = 3

(* C29 *)
\* the failures named for an attempt: the call raised; the content did not parse to
\* an object; its "contexts" was no list of len(batch) entries
NamedFailures ==
    { "OpenAIError",
      "Empty completion content.", "No JSON object found", "JSONDecodeError", "AttributeError",
      "Wrong shape", "TypeError" }

\* C29: gen_batch makes at most max_retries attempts; an attempt fails only on a call
\* error, on unparsable JSON or on a wrong length, so that the first response that
\* parses with the right length is returned; what gen_batch returns, contexts or
\* failure placeholders, has len(batch) entries.
C29_ReturnsFirstWellFormedResponse ==
    \A b \in DOMAIN worker :
        /\ worker[b].attempt <= max_retries + 1
        /\ worker[b].last_err \in NamedFailures \cup { "None" }
        /\ worker[b].st = "done" => Len(returned_by[b].items) = Len(batches[b])

(* C30 *)
\* gen_batch calls under way
InFlight == Cardinality({ b \in DOMAIN worker : worker[b].st = "running" })

EveryBatchProcessedOnce ==
    /\ Len(worker) = Len(batches)
    /\ \A b \in DOMAIN worker : worker[b].st = "done" /\ worker[b].runs = 1

SemaphoreBound ==
    pa_pc = "gather" =>
        /\ InFlight <= concurrency
        /\ \A b \in DOMAIN worker : worker[b].runs <= 1

\* C30 as stated: never more than `concurrency` gen_batch calls in flight, and every
\* batch is eventually processed exactly once, whatever the concurrency.
C30_EveryBatchProcessed ==
    /\ []SemaphoreBound
    /\ (pa_pc = "gather") ~> EveryBatchProcessedOnce

\* with a concurrency of 0 and a batch to process no worker ever starts and
\* process_all does not return
ZeroConcurrencyHangs ==
    (ctx_entry = "process_all" /\ concurrency = 0 /\ batches # << >>) =>
        /\ pa_pc = "gather"
        /\ \A b \in DOMAIN worker : worker[b].st = "waiting" /\ worker[b].runs = 0

\* with a negative concurrency process_all raises before a worker exists
NegativeConcurrencyRaises ==
    (ctx_entry = "process_all" /\ concurrency < 0) =>
        /\ pa_pc \in { "start", "raised" }
        /\ worker = << >>

\* C30: during the gather never more than `concurrency` gen_batch calls are in flight
\* and no batch is run twice; with a concurrency of at least 1, or with no batch at
\* all, every batch is eventually processed, exactly once, and process_all returns;
\* with a concurrency of 0 and a batch to process nothing is ever processed and
\* process_all does not return; with a negative concurrency it raises.
C30_BoundedConcurrency ==
    /\ []SemaphoreBound
    /\ []ZeroConcurrencyHangs
    /\ []NegativeConcurrencyRaises
    /\ (pa_pc = "gather" /\ (concurrency >= 1 \/ batches = << >>))
           ~> (pa_pc = "returned" /\ EveryBatchProcessedOnce)

\* every permit is taken while a batch waits for one
C30_Witness ==
    /\ pa_pc = "gather"
    /\ concurrency >= 1
    /\ InFlight = concurrency
    /\ \E b \in DOMAIN worker : worker[b].st = "waiting"

\* The safety side of the progress of the gather: the attempts a worker may still
\* make, counted over the workers
WorkLeft(b) ==
    CASE worker[b].st = "waiting" -> max_retries + 3
      [] worker[b].st = "running" -> (max_retries + 2) - worker[b].attempt
      [] OTHER -> 0

RECURSIVE WorkLeftUpTo(_)
WorkLeftUpTo(n) == IF n = 0 THEN 0 ELSE WorkLeft(n) + WorkLeftUpTo(n - 1)

GatherWorkLeft == (IF pa_pc = "gather" THEN 1 ELSE 0) + WorkLeftUpTo(Len(worker))

\* with a permit to give, the gather can always take a step
GatherNeverStuck == (pa_pc = "gather" /\ concurrency >= 1) => ENABLED ContextNext

\* every step of the gather leaves less work
GatherWorkDecreases == [][pa_pc = "gather" => GatherWorkLeft' < GatherWorkLeft]_vars

\* process_all returns only with every batch processed once
ReturnedAfterEveryBatch == pa_pc = "returned" => EveryBatchProcessedOnce

====
